---------------------------- MODULE Spec2Model ----------------------------
(***************************************************************************)
(* Model of the voxel chunk engine of RustVoxelfun.                        *)
(*                                                                         *)
(*   terrain.rs   Chunk (flat boolean grid), merge_voxels, generate_mesh   *)
(*   chunk.rs     Chunk of the column variant (dirty flag)                 *)
(*   world.rs     World: chunk store, streaming queues, grace period       *)
(*   main.rs      the per-frame systems of the volumetric variant          *)
(*                                                                         *)
(* Vectors are TLA+ sequences; the Rust index i is element i + 1.          *)
(***************************************************************************)
EXTENDS Integers, Sequences, FiniteSets, TLC

VARIABLES
    chunk,      \* terrain.rs Chunk under test: voxels, width, height, depth, boxified
    cchunk,     \* chunk.rs Chunk under test: voxels, width, height, depth, dirty
    call,       \* the last call made on the chunk under test: name and arguments
    ret,        \* value returned by the last get_voxel
    panicked,   \* TRUE when the last call indexed a Vec outside its length
    boxes,      \* box list returned by the last merge_voxels / used by generate_mesh
    mesh,       \* Mesh returned by the last generate_mesh
    \* world.rs World
    chunks,                 \* chunk key -> Chunk
    chunk_entities,         \* chunk key -> Entity of the chunk's renderable
    render_distance,
    last_player_chunk,
    chunk_load_queue,
    chunk_unload_queue,
    chunk_last_accessed,    \* chunk key -> Instant
    chunk_loading_queue,
    \* the host engine (Bevy) around the World resource
    camera,     \* the observer entity: whether it exists, and its translation in tenths
    now,        \* the clock read by Instant::now(), in seconds
    ran,        \* the systems of the Update schedule that have run in this frame
    tasks,      \* ChunkMeshingTask entities: key, the voxels cloned for the build, and
                \* whether the spawn command has been applied (the entity can be polled)
    entities,   \* renderable entities: the voxels their mesh was built from, whether
                \* the spawn command has been applied, whether a despawn is queued
    clicks,     \* left mouse presses so far
    \* the chunk.rs / interaction.rs variant
    terrain_state,  \* TerrainState: chunks (position -> Entity), chunks_to_update,
                    \* chunks_to_remove, player_chunk
    centities,      \* chunk entities: the Chunk component, InstanceMaterialData,
                    \* PreparedInstanceData if present, whether the spawn command has
                    \* been applied, whether a despawn is queued
    edit_marks,     \* the positions the removals have inserted into chunks_to_update
    idle_marks      \* those of them that only removals changing no cell have inserted
                    \* and that have stayed in it since

gridVars == <<chunk, cchunk, call, ret, panicked, boxes, mesh>>

worldVars == <<chunks, chunk_entities, render_distance, last_player_chunk,
               chunk_load_queue, chunk_unload_queue, chunk_last_accessed,
               chunk_loading_queue>>

hostVars == <<camera, now, ran, tasks, entities, clicks>>

colVars == <<terrain_state, centities, edit_marks, idle_marks>>

vars == <<gridVars, worldVars, hostVars, colVars>>

(***************************************************************************)
(* Bounds of the model.                                                    *)
(***************************************************************************)
\* largest number of cells (width * height * depth) of a grid under test
MaxCells == 8

\* largest number of cells of a grid on which single get_voxel / set_voxel calls
\* are made
MaxGridCells == 4

\* every (width, height, depth) with at least one cell and at most n
Dims(n) == {d \in (1..n) \X (1..n) \X (1..n) : d[1] * d[2] * d[3] <= n}

(***************************************************************************)
(* terrain.rs: Chunk                                                       *)
(***************************************************************************)
\* Chunk::new: all cells empty, nothing boxified
ChunkNew(width, height, depth) ==
    [voxels |-> [i \in 1..(width * height * depth) |-> FALSE],
     width |-> width, height |-> height, depth |-> depth,
     last_accessed |-> 0,
     boxified |-> [i \in 1..(width * height * depth) |-> FALSE]]

\* x + y * width + z * width * height
get_box_index(c, x, y, z) == x + y * c.width + z * c.width * c.height

\* a bounds test that forgets the z axis
InBounds_no_z(c, x, y, z) == x < c.width /\ y < c.height

\* the bounds test of get_voxel and set_voxel (usize arguments: never negative)
InBounds(c, x, y, z) == x < c.width /\ y < c.height /\ z < c.depth

\* get_voxel with the outcome of the Vec index: the value read, and whether the
\* index was outside the Vec (a Rust panic)
get_voxel_call(c, x, y, z) ==
    IF InBounds(c, x, y, z)
    THEN LET i == x + y * c.width + z * c.width * c.height IN
         IF i < Len(c.voxels)
         THEN [value |-> c.voxels[i + 1], panic |-> FALSE]
         ELSE [value |-> FALSE, panic |-> TRUE]
    ELSE [value |-> FALSE, panic |-> FALSE]

get_voxel(c, x, y, z) == get_voxel_call(c, x, y, z).value

\* set_voxel writing through a wrong index: the height factor of z is missing
set_voxel_call_lost_stride(c, x, y, z, value) ==
    IF InBounds(c, x, y, z)
    THEN LET i == x + y * c.width + z * c.width IN
         IF i < Len(c.voxels)
         THEN [chunk |-> [c EXCEPT !.voxels[i + 1] = value], panic |-> FALSE]
         ELSE [chunk |-> c, panic |-> TRUE]
    ELSE [chunk |-> c, panic |-> FALSE]

\* set_voxel with the outcome of the Vec index
set_voxel_call(c, x, y, z, value) ==
    IF InBounds(c, x, y, z)
    THEN LET i == x + y * c.width + z * c.width * c.height IN
         IF i < Len(c.voxels)
         THEN [chunk |-> [c EXCEPT !.voxels[i + 1] = value], panic |-> FALSE]
         ELSE [chunk |-> c, panic |-> TRUE]
    ELSE [chunk |-> c, panic |-> FALSE]

set_voxel(c, x, y, z, value) == set_voxel_call(c, x, y, z, value).chunk

\* is_boxified on a boxified array b of chunk c
is_boxified(c, b, x, y, z) == b[get_box_index(c, x, y, z) + 1]

\* a cell test that forgets to ask whether the cell is solid
Free_unclaimed_only(c, b, x, y, z) == ~is_boxified(c, b, x, y, z)

\* the test merge_voxels makes on every cell: solid and not yet in a box
Free(c, b, x, y, z) == get_voxel(c, x, y, z) /\ ~is_boxified(c, b, x, y, z)

\* an x merge that never grows past two cells
RECURSIVE MergeX_two_cells(_, _, _, _, _, _)
MergeX_two_cells(c, b, x, y, z, nx) ==
    IF nx < 2 /\ x + nx < c.width /\ Free(c, b, x + nx, y, z)
    THEN MergeX_two_cells(c, b, x, y, z, nx + 1)
    ELSE nx

\* "Merge in x direction": nx grows while the next cell of the row is free
RECURSIVE MergeX(_, _, _, _, _, _)
MergeX(c, b, x, y, z, nx) ==
    IF x + nx < c.width /\ Free(c, b, x + nx, y, z)
    THEN MergeX(c, b, x, y, z, nx + 1)
    ELSE nx

\* a y merge that looks only at the first cell of the next row
RECURSIVE MergeY_first_cell(_, _, _, _, _, _, _)
MergeY_first_cell(c, b, x, y, z, nx, ny) ==
    IF y + ny < c.height /\ Free(c, b, x, y + ny, z)
    THEN MergeY_first_cell(c, b, x, y, z, nx, ny + 1)
    ELSE ny

\* "Merge in y direction": ny grows while the whole next row of the x-run is free
RECURSIVE MergeY(_, _, _, _, _, _, _)
MergeY(c, b, x, y, z, nx, ny) ==
    IF y + ny < c.height /\ \A i \in x..(x + nx - 1) : Free(c, b, i, y + ny, z)
    THEN MergeY(c, b, x, y, z, nx, ny + 1)
    ELSE ny

\* a z merge that stops one layer early
RECURSIVE MergeZ_short(_, _, _, _, _, _, _, _)
MergeZ_short(c, b, x, y, z, nx, ny, nz) ==
    IF z + nz + 1 < c.depth
       /\ \A i \in x..(x + nx - 1) : \A j \in y..(y + ny - 1) : Free(c, b, i, j, z + nz)
    THEN MergeZ_short(c, b, x, y, z, nx, ny, nz + 1)
    ELSE nz

\* "Merge in z direction": nz grows while the whole next layer of the slab is free
RECURSIVE MergeZ(_, _, _, _, _, _, _, _)
MergeZ(c, b, x, y, z, nx, ny, nz) ==
    IF z + nz < c.depth
       /\ \A i \in x..(x + nx - 1) : \A j \in y..(y + ny - 1) : Free(c, b, i, j, z + nz)
    THEN MergeZ(c, b, x, y, z, nx, ny, nz + 1)
    ELSE nz

\* "Mark voxels as boxified": set_boxified(i, j, k, true) over the box
MarkBox(c, b, x, y, z, nx, ny, nz) ==
    [n \in 1..Len(b) |->
        IF \E i \in x..(x + nx - 1) : \E j \in y..(y + ny - 1) : \E k \in z..(z + nz - 1) :
               n = get_box_index(c, i, j, k) + 1
        THEN TRUE ELSE b[n]]

\* the scan of merge_voxels from its p-th step on; the loops run x outermost,
\* then y, then z, so step p visits x = p / (height * depth), y = (p / depth) % height,
\* z = p % depth.  st = [boxes, boxified]
RECURSIVE MergeScan(_, _, _)
MergeScan(c, st, p) ==
    IF p >= c.width * c.height * c.depth THEN st
    ELSE LET x == p \div (c.height * c.depth)
             y == (p \div c.depth) % c.height
             z == p % c.depth
         IN  IF Free(c, st.boxified, x, y, z)
             THEN LET nx == MergeX(c, st.boxified, x, y, z, 1)
                      ny == MergeY(c, st.boxified, x, y, z, nx, 1)
                      nz == MergeZ(c, st.boxified, x, y, z, nx, ny, 1)
                  IN  MergeScan(c,
                          [boxes |-> Append(st.boxes, <<x, y, z, nx, ny, nz>>),
                           boxified |-> MarkBox(c, st.boxified, x, y, z, nx, ny, nz)],
                          p + 1)
             ELSE MergeScan(c, st, p + 1)

\* a merge that scans without clearing the boxified array first
merge_voxels_no_fill(c) ==
    MergeScan(c, [boxes |-> <<>>, boxified |-> c.boxified], 0)

\* merge_voxels: boxified.fill(false), then the scan; gives the box list and the
\* boxified array it leaves in the chunk
merge_voxels(c) ==
    MergeScan(c, [boxes |-> <<>>, boxified |-> [i \in 1..Len(c.boxified) |-> FALSE]], 0)

(***************************************************************************)
(* terrain.rs: generate_mesh                                               *)
(***************************************************************************)
\* face_vertices of one box, in the order of the source
face_vertices(bx) ==
    LET x == bx[1]  y == bx[2]  z == bx[3]
        X == bx[1] + bx[4]  Y == bx[2] + bx[5]  Z == bx[3] + bx[6]
    IN  << <<x, y, z>>, <<X, y, z>>, <<x, Y, z>>, <<X, Y, z>>,     \* front
           <<x, y, Z>>, <<X, y, Z>>, <<x, Y, Z>>, <<X, Y, Z>>,     \* back
           <<x, y, z>>, <<x, Y, z>>, <<x, y, Z>>, <<x, Y, Z>>,     \* left
           <<X, y, z>>, <<X, Y, z>>, <<X, y, Z>>, <<X, Y, Z>>,     \* right
           <<x, Y, z>>, <<X, Y, z>>, <<x, Y, Z>>, <<X, Y, Z>> ,    \* top
           <<x, y, z>>, <<X, y, z>>, <<x, y, Z>>, <<X, y, Z>> >>   \* bottom

\* the indices with the two triangles of the top face wound the other way round
face_indices_top_flipped ==
    << 0, 2, 1, 2, 3, 1,
       4, 5, 6, 5, 7, 6,
       8, 10, 9, 10, 11, 9,
       12, 13, 14, 13, 15, 14,
       16, 17, 18, 18, 17, 19,
       20, 21, 22, 21, 23, 22 >>

face_indices ==
    << 0, 2, 1, 2, 3, 1,
       4, 5, 6, 5, 7, 6,
       8, 10, 9, 10, 11, 9,
       12, 13, 14, 13, 15, 14,
       16, 18, 17, 18, 19, 17,
       20, 21, 22, 21, 23, 22 >>

face_normals ==
    << <<0, 0, -1>>, <<0, 0, -1>>, <<0, 0, -1>>, <<0, 0, -1>>,
       <<0, 0, 1>>, <<0, 0, 1>>, <<0, 0, 1>>, <<0, 0, 1>>,
       <<-1, 0, 0>>, <<-1, 0, 0>>, <<-1, 0, 0>>, <<-1, 0, 0>>,
       <<1, 0, 0>>, <<1, 0, 0>>, <<1, 0, 0>>, <<1, 0, 0>>,
       <<0, 1, 0>>, <<0, 1, 0>>, <<0, 1, 0>>, <<0, 1, 0>>,
       <<0, -1, 0>>, <<0, -1, 0>>, <<0, -1, 0>>, <<0, -1, 0>> >>

face_uvs ==
    [n \in 1..24 |-> << <<0, 0>>, <<1, 0>>, <<0, 1>>, <<1, 1>> >>[((n - 1) % 4) + 1]]

EmptyMesh == [positions |-> <<>>, normals |-> <<>>, uvs |-> <<>>, indices |-> <<>>]

\* the loop of generate_mesh over the boxes bs from the n-th on; index_count is
\* 24 * (n - 1) when box n is reached
RECURSIVE MeshLoop(_, _, _)
MeshLoop(bs, n, m) ==
    IF n > Len(bs) THEN m
    ELSE LET index_count == 24 * (n - 1) IN
         MeshLoop(bs, n + 1,
            [positions |-> m.positions \o face_vertices(bs[n]),
             indices   |-> m.indices \o [k \in 1..36 |-> face_indices[k] + index_count],
             normals   |-> m.normals \o face_normals,
             uvs       |-> m.uvs \o face_uvs])

\* generate_mesh: the mesh of the boxes merge_voxels returns
generate_mesh(c) == MeshLoop(merge_voxels(c).boxes, 1, EmptyMesh)

(***************************************************************************)
(* chunk.rs: Chunk of the column variant                                   *)
(***************************************************************************)
\* the bounds test of chunk.rs set_voxel (i32 arguments)
CInBounds(c, x, y, z) ==
    x >= 0 /\ x < c.width /\ y >= 0 /\ y < c.height /\ z >= 0 /\ z < c.depth

\* chunk.rs set_voxel with the outcome of the Vec index: the cell is written and
\* dirty raised only when the value changes
cset_voxel_call(c, x, y, z, is_solid) ==
    IF CInBounds(c, x, y, z)
    THEN LET index == x + y * c.width + z * c.width * c.height IN
         IF index >= 0 /\ index < Len(c.voxels)
         THEN IF c.voxels[index + 1] # is_solid
              THEN [chunk |-> [c EXCEPT !.voxels[index + 1] = is_solid, !.dirty = TRUE],
                    panic |-> FALSE]
              ELSE [chunk |-> c, panic |-> FALSE]
         ELSE [chunk |-> c, panic |-> TRUE]
    ELSE [chunk |-> c, panic |-> FALSE]

(***************************************************************************)
(* The chunks under test and the calls made on them.                       *)
(***************************************************************************)
\* how far outside the grid the out-of-bounds coordinates of a call lie
MaxOutside == 1

\* a terrain.rs Chunk with the given dimensions and cells; boxified as Chunk::new
\* leaves it
ChunkOf(d, v) == [ChunkNew(d[1], d[2], d[3]) EXCEPT !.voxels = v]

TerrainChunks(n) ==
    UNION {{ChunkOf(d, v) : v \in [1..(d[1] * d[2] * d[3]) -> BOOLEAN]} : d \in Dims(n)}

\* a chunk.rs Chunk with the given dimensions, cells and dirty flag
CChunkOf(d, v, dirty) ==
    [voxels |-> v, width |-> d[1], height |-> d[2], depth |-> d[3], dirty |-> dirty]

ColumnChunks(n) ==
    UNION {{CChunkOf(d, v, dirty) : v \in [1..(d[1] * d[2] * d[3]) -> BOOLEAN],
                                    dirty \in BOOLEAN} : d \in Dims(n)}

NoCall == [name |-> "new", x |-> 0, y |-> 0, z |-> 0, value |-> FALSE]

Call(name, x, y, z, value) == [name |-> name, x |-> x, y |-> y, z |-> z, value |-> value]

\* Chunk::get_voxel(x, y, z) on the terrain.rs chunk
GetVoxel(x, y, z) ==
    LET r == get_voxel_call(chunk, x, y, z) IN
    /\ call' = Call("get_voxel", x, y, z, FALSE)
    /\ ret' = r.value
    /\ panicked' = r.panic
    /\ UNCHANGED <<chunk, cchunk, boxes, mesh>>
    /\ UNCHANGED <<worldVars, hostVars, colVars>>

\* Chunk::set_voxel(x, y, z, value) on the terrain.rs chunk
SetVoxel(x, y, z, value) ==
    LET r == set_voxel_call(chunk, x, y, z, value) IN
    /\ call' = Call("set_voxel", x, y, z, value)
    /\ chunk' = r.chunk
    /\ panicked' = r.panic
    /\ ret' = FALSE
    /\ UNCHANGED <<cchunk, boxes, mesh>>
    /\ UNCHANGED <<worldVars, hostVars, colVars>>

\* chunk.rs Chunk::set_voxel(x, y, z, is_solid) on the column chunk
CSetVoxel(x, y, z, is_solid) ==
    LET r == cset_voxel_call(cchunk, x, y, z, is_solid) IN
    /\ call' = Call("chunk.rs set_voxel", x, y, z, is_solid)
    /\ cchunk' = r.chunk
    /\ panicked' = r.panic
    /\ ret' = FALSE
    /\ UNCHANGED <<chunk, boxes, mesh>>
    /\ UNCHANGED <<worldVars, hostVars, colVars>>

\* Chunk::merge_voxels on the terrain.rs chunk
MergeVoxels ==
    LET r == merge_voxels(chunk) IN
    /\ call' = Call("merge_voxels", 0, 0, 0, FALSE)
    /\ chunk' = [chunk EXCEPT !.boxified = r.boxified]
    /\ boxes' = r.boxes
    /\ mesh' = EmptyMesh
    /\ UNCHANGED <<cchunk, ret, panicked>>
    /\ UNCHANGED <<worldVars, hostVars, colVars>>

\* Chunk::generate_mesh on the terrain.rs chunk
GenerateMesh ==
    /\ call' = Call("generate_mesh", 0, 0, 0, FALSE)
    /\ chunk' = [chunk EXCEPT !.boxified = merge_voxels(chunk).boxified]
    /\ mesh' = generate_mesh(chunk)
    /\ boxes' = <<>>
    /\ UNCHANGED <<cchunk, ret, panicked>>
    /\ UNCHANGED <<worldVars, hostVars, colVars>>

InitGridVars ==
    /\ call = NoCall
    /\ ret = FALSE
    /\ panicked = FALSE
    /\ boxes = <<>>
    /\ mesh = EmptyMesh

(***************************************************************************)
(* world.rs: the World resource.  main.rs: the systems of the Update       *)
(* schedule that read and write it.                                        *)
(*                                                                         *)
(* Positions are in tenths of a unit, the step of World::raycast, and the  *)
(* clock is in seconds.  World::new takes the chunk edge and the render    *)
(* distance as parameters: the worlds built here have chunks of edge       *)
(* WorldChunkSize and a render distance from RenderDistances.              *)
(***************************************************************************)
WorldChunkSize == 2
RenderDistances == {0, 1}
UNLOAD_GRACE_PERIOD == 5
VOXEL_REMOVAL_RANGE == 20

\* 1 / step of World::raycast
StepsPerUnit == 10

\* the clock stops at MaxTime; a frame lasts MinDt..MaxDt seconds
MaxTime == 6
MinDt == 2
MaxDt == 3
\* left mouse presses in a run
MaxClicks == 1
\* the observer visits the chunks (0,0,0) .. (MaxCameraChunk,0,0)
MaxCameraChunk == 1
\* with at most MaxPoll builds pending any subset of them may be finished at a
\* poll; with more, all of them or none
MaxPoll == 2

\* the systems main adds to the Update schedule, in one unordered tuple;
\* sync_light_with_camera, which only moves the light, is left out
Systems == {"update_chunks", "process_chunk_queue", "handle_meshing_tasks",
            "voxel_removal_system", "prioritize_chunks"}

Range(s) == {s[i] : i \in 1..Len(s)}
Abs(i) == IF i < 0 THEN -i ELSE i
Min(a, b) == IF a < b THEN a ELSE b
NoMap == [k \in {} |-> FALSE]
Restrict(f, S) == [k \in S |-> f[k]]

\* (pos / chunk_size).floor() on the three axes
PlayerChunk(pos) ==
    <<pos[1] \div (StepsPerUnit * WorldChunkSize),
      pos[2] \div (StepsPerUnit * WorldChunkSize),
      pos[3] \div (StepsPerUnit * WorldChunkSize)>>

\* the squared euclidean distance of update_chunks
Dist2(k, pc) ==
    (k[1] - pc[1]) * (k[1] - pc[1]) + (k[2] - pc[2]) * (k[2] - pc[2])
        + (k[3] - pc[3]) * (k[3] - pc[3])

\* the three loops of update_chunks restricted to the ball of radius r
CubeSeq_ball(pc, r) ==
    LET n == 2 * r + 1
        cube == [i \in 1..(n * n * n) |->
                    <<pc[1] - r + ((i - 1) \div (n * n)),
                      pc[2] - r + (((i - 1) \div n) % n),
                      pc[3] - r + ((i - 1) % n)>>]
        InBall(k) == Dist2(k, pc) <= r * r
    IN SelectSeq(cube, InBall)

\* the three nested loops x, y, z over the cube of radius r around pc, in the order
\* they visit it
CubeSeq(pc, r) ==
    LET n == 2 * r + 1 IN
    [i \in 1..(n * n * n) |->
        <<pc[1] - r + ((i - 1) \div (n * n)),
          pc[2] - r + (((i - 1) \div n) % n),
          pc[3] - r + ((i - 1) % n)>>]

KeyLess(a, b) ==
    \/ a[1] < b[1]
    \/ a[1] = b[1] /\ a[2] < b[2]
    \/ a[1] = b[1] /\ a[2] = b[2] /\ a[3] < b[3]

\* HashMap::keys() visits the keys in an order the program does not control and
\* that no result depends on; the model visits them in ascending order.
RECURSIVE KeysInOrder(_)
KeysInOrder(S) ==
    IF S = {} THEN <<>>
    ELSE LET m == CHOOSE k \in S : \A j \in S \ {k} : KeyLess(k, j) IN
         <<m>> \o KeysInOrder(S \ {m})

\* the height Perlin::new(0) gives the column (world_x, world_z): a fixed function
\* of the column, from 0 to the amplitude, which is twice the chunk edge
NoiseHeight(world_x, world_z) == (world_x + 2 * world_z) % (2 * WorldChunkSize + 1)

\* Chunk::generate_terrain(chunk_x, chunk_y, chunk_z) on chunk c
generate_terrain(c, chunk_x, chunk_y, chunk_z) ==
    [c EXCEPT !.voxels =
        [i \in 1..Len(c.voxels) |->
            LET x == (i - 1) % c.width
                y == ((i - 1) \div c.width) % c.height
                z == (i - 1) \div (c.width * c.height)
                world_x == chunk_x * c.width + x
                world_z == chunk_z * c.width + z
                height == NoiseHeight(world_x, world_z)
                below == y - (-chunk_y) * c.height
                world_y == IF chunk_y >= 0 THEN chunk_y * c.height + y
                           ELSE IF below < 0 THEN 0 ELSE below
            IN IF world_y < c.height THEN world_y < height ELSE c.voxels[i]]]

\* Chunk::generate_mesh_task(chunk_key): the build works on a clone of the voxels
\* taken now; the entity carrying it exists once the spawn command is applied
generate_mesh_task(c, chunk_key) ==
    [key |-> chunk_key, voxels |-> c.voxels, live |-> FALSE]

\* the mesh a build returns
TaskMesh(voxels) ==
    generate_mesh(ChunkOf(<<WorldChunkSize, WorldChunkSize, WorldChunkSize>>, voxels))

Ran(system) == ran' = ran \cup {system}

\* a key is queued for loading, and loaded, whatever is resident
NeedsLoad_always(resident, chunk_key) == TRUE

\* !self.chunks.contains_key(&chunk_key), the test of update_chunks before it
\* queues a key for loading and of process_queue before it loads one
NeedsLoad(resident, chunk_key) == chunk_key \notin resident

\* a chunk is due for unloading once the grace period has elapsed
Overdue_at_grace(t, last_accessed) == t - last_accessed >= UNLOAD_GRACE_PERIOD

\* now.duration_since(*last_accessed).as_secs_f32() > self.unload_grace_period
Overdue(t, last_accessed) == t - last_accessed > UNLOAD_GRACE_PERIOD

\* a stamping that leaves the time of a key that has one alone
InsertAccessed_if_new(last_accessed, want, t) ==
    [k \in DOMAIN last_accessed \cup want |->
        IF k \in DOMAIN last_accessed THEN last_accessed[k] ELSE t]

\* self.chunk_last_accessed.insert(chunk_key, now) for every key of the cube
InsertAccessed(last_accessed, want, t) ==
    [k \in DOMAIN last_accessed \cup want |-> IF k \in want THEN t ELSE last_accessed[k]]

\* World::update_chunks(player_chunk)
World_update_chunks(pc) ==
    \E cube \in {CubeSeq(pc, render_distance)}, resident \in {DOMAIN chunks} :
    \E want \in {Range(cube)} :
    \E accessed \in {InsertAccessed(chunk_last_accessed, want, now)} :
        LET Missing(k) == NeedsLoad(resident, k)
            chunks_to_remove ==
                {k \in resident : Dist2(k, pc) > render_distance * render_distance}
            Due(k) == k \in DOMAIN accessed /\ Overdue(now, accessed[k])
        IN /\ last_player_chunk' = pc
           /\ chunk_load_queue' = SelectSeq(cube, Missing)
           /\ chunk_last_accessed' = accessed
           /\ chunk_unload_queue' = KeysInOrder({k \in chunks_to_remove : Due(k)})
           /\ UNCHANGED <<chunks, chunk_entities, render_distance, chunk_loading_queue>>

\* main.rs update_chunks
update_chunks ==
    /\ "update_chunks" \notin ran
    /\ Ran("update_chunks")
    /\ IF camera.present
       THEN World_update_chunks(PlayerChunk(camera.pos))
       ELSE UNCHANGED worldVars
    /\ UNCHANGED <<colVars, gridVars, camera, now, tasks, entities, clicks>>

\* a removal that drops the stamp of every key that is not being unloaded
RemoveAccessed_others(last_accessed, unloads) ==
    Restrict(last_accessed, DOMAIN last_accessed \cap unloads)

\* self.chunk_last_accessed.remove(&chunk_key) for every key of the unload queue
RemoveAccessed(last_accessed, unloads) ==
    Restrict(last_accessed, DOMAIN last_accessed \ unloads)

\* World::process_queue, called by main.rs process_chunk_queue
process_queue ==
    \E resident \in {DOMAIN chunks}, unloads \in {Range(chunk_unload_queue)} :
    \E loads \in {SelectSeq(chunk_load_queue, LAMBDA k : NeedsLoad(resident, k))} :
    \E loaded \in {[k \in resident \cup Range(loads) |->
                       IF k \in Range(loads)
                       THEN generate_terrain(
                                ChunkNew(WorldChunkSize, WorldChunkSize, WorldChunkSize),
                                k[1], k[2], k[3])
                       ELSE chunks[k]]} :
    \E despawned \in {{chunk_entities[k] : k \in unloads \cap DOMAIN chunk_entities}} :
       /\ chunks' = Restrict(loaded, DOMAIN loaded \ unloads)
       /\ tasks' = tasks \o [i \in 1..Len(loads) |->
                                generate_mesh_task(loaded[loads[i]], loads[i])]
       /\ entities' = [e \in DOMAIN entities |->
                          IF e \in despawned THEN [entities[e] EXCEPT !.despawn = TRUE]
                          ELSE entities[e]]
       /\ chunk_entities' = Restrict(chunk_entities, DOMAIN chunk_entities \ unloads)
       /\ chunk_last_accessed' = RemoveAccessed(chunk_last_accessed, unloads)
       /\ chunk_load_queue' = <<>>
       /\ chunk_unload_queue' = <<>>
       /\ UNCHANGED <<render_distance, last_player_chunk, chunk_loading_queue>>

process_chunk_queue ==
    /\ "process_chunk_queue" \notin ran
    /\ Ran("process_chunk_queue")
    /\ process_queue
    /\ UNCHANGED <<colVars, gridVars, camera, now, clicks>>

\* the id commands.spawn reserves for a new renderable of chunk_key
NewEntity(ents, chunk_key) ==
    <<chunk_key, CHOOSE n \in 0..Cardinality(DOMAIN ents) :
                    /\ <<chunk_key, n>> \notin DOMAIN ents
                    /\ \A m \in 0..(n - 1) : <<chunk_key, m>> \in DOMAIN ents>>

\* the loop of handle_meshing_tasks over the task entities, from the i-th on; ready
\* holds the ones whose poll returns Ready, st the maps as the loop has left them
RECURSIVE MeshingLoop(_, _, _)
MeshingLoop(st, i, ready) ==
    IF i > Len(tasks) THEN st
    ELSE IF i \notin ready THEN MeshingLoop(st, i + 1, ready)
    ELSE LET chunk_key == tasks[i].key IN
         IF chunk_key \in DOMAIN st.chunk_entities
         THEN LET existing_entity == st.chunk_entities[chunk_key] IN
              MeshingLoop(
                  IF st.entities[existing_entity].live
                  THEN [st EXCEPT !.entities[existing_entity].mesh = tasks[i].voxels]
                  ELSE st,
                  i + 1, ready)
         ELSE LET chunk_entity == NewEntity(st.entities, chunk_key) IN
              MeshingLoop(
                  [chunk_entities |-> (chunk_key :> chunk_entity) @@ st.chunk_entities,
                   entities |-> (chunk_entity :> [mesh |-> tasks[i].voxels,
                                                  live |-> FALSE,
                                                  despawn |-> FALSE]) @@ st.entities],
                  i + 1, ready)

\* the sets of builds that may be finished when they are polled
ReadyChoices(T) == IF Cardinality(T) <= MaxPoll THEN SUBSET T ELSE {{}, T}

RECURSIVE Without(_, _, _)
Without(s, i, drop) ==
    IF i > Len(s) THEN <<>>
    ELSE (IF i \in drop THEN <<>> ELSE <<s[i]>>) \o Without(s, i + 1, drop)

\* main.rs handle_meshing_tasks
handle_meshing_tasks ==
    /\ "handle_meshing_tasks" \notin ran
    /\ Ran("handle_meshing_tasks")
    /\ \E ready \in ReadyChoices({i \in 1..Len(tasks) : tasks[i].live}) :
          LET st == MeshingLoop([chunk_entities |-> chunk_entities,
                                 entities |-> entities], 1, ready) IN
          /\ chunk_entities' = st.chunk_entities
          /\ entities' = st.entities
          /\ tasks' = Without(tasks, 1, ready)
    /\ UNCHANGED <<colVars, gridVars, chunks, render_distance, last_player_chunk,
                   chunk_load_queue, chunk_unload_queue, chunk_last_accessed,
                   chunk_loading_queue, camera, now, clicks>>

NoHit == [hit |-> FALSE, chunk_key |-> <<0, 0, 0>>, voxel_pos |-> <<0, 0, 0>>]

\* pos.rem_euclid(chunk_size) as usize, capped at chunk_size - 1
Local(p) ==
    Min((p % (StepsPerUnit * WorldChunkSize)) \div StepsPerUnit, WorldChunkSize - 1)

\* the number of samples the marches take in one run of their loops
MarchBlock == 32

\* World::raycast(origin, direction, max_distance): the march over the samples
\* origin + n * dir * step, n = 0 .. max_distance / step - 1, in runs of MarchBlock
\* samples
World_raycast(origin, dir, max_distance) ==
    LET count == max_distance * StepsPerUnit
        resident == DOMAIN chunks
        Pos(n) == <<origin[1] + n * dir[1], origin[2] + n * dir[2], origin[3] + n * dir[3]>>
        Solid(n) ==
            LET chunk_key == PlayerChunk(Pos(n)) IN
            /\ chunk_key \in resident
            /\ get_voxel(chunks[chunk_key], Local(Pos(n)[1]), Local(Pos(n)[2]), Local(Pos(n)[3]))
        Found(n) ==
            [hit |-> TRUE, chunk_key |-> PlayerChunk(Pos(n)),
             voxel_pos |-> <<Local(Pos(n)[1]), Local(Pos(n)[2]), Local(Pos(n)[3])>>]
        RECURSIVE Run(_, _)
        Run(n, last) ==
            IF n > last THEN NoHit
            ELSE IF Solid(n) THEN Found(n)
            ELSE Run(n + 1, last)
        RECURSIVE Runs(_)
        Runs(first) ==
            IF first > count - 1 THEN NoHit
            ELSE LET r == Run(first, Min(first + MarchBlock - 1, count - 1)) IN
                 IF r.hit THEN r ELSE Runs(first + MarchBlock)
    IN Runs(0)

\* World::update_neighboring_chunks(chunk_key): the builds it spawns
update_neighboring_chunks(cs, chunk_key) ==
    LET neighbors == << <<chunk_key[1] - 1, chunk_key[2], chunk_key[3]>>,
                        <<chunk_key[1] + 1, chunk_key[2], chunk_key[3]>>,
                        <<chunk_key[1], chunk_key[2] - 1, chunk_key[3]>>,
                        <<chunk_key[1], chunk_key[2] + 1, chunk_key[3]>>,
                        <<chunk_key[1], chunk_key[2], chunk_key[3] - 1>>,
                        <<chunk_key[1], chunk_key[2], chunk_key[3] + 1>> >>
        Resident(k) == k \in DOMAIN cs
        found == SelectSeq(neighbors, Resident)
    IN [i \in 1..Len(found) |-> generate_mesh_task(cs[found[i]], found[i])]

\* World::remove_voxel(chunk_key, voxel_pos): the chunks after it and the builds
\* it spawns
remove_voxel(chunk_key, voxel_pos) ==
    IF /\ chunk_key \in DOMAIN chunks
       /\ get_voxel(chunks[chunk_key], voxel_pos[1], voxel_pos[2], voxel_pos[3])
    THEN LET edited == set_voxel(chunks[chunk_key],
                                 voxel_pos[1], voxel_pos[2], voxel_pos[3], FALSE)
             after == [chunks EXCEPT ![chunk_key] = edited]
             own == IF chunk_key \in DOMAIN chunk_entities
                    THEN <<generate_mesh_task(edited, chunk_key)>>
                    ELSE <<>>
         IN [chunks |-> after,
             spawned |-> own \o update_neighboring_chunks(after, chunk_key)]
    ELSE [chunks |-> chunks, spawned |-> <<>>]

\* the directions the camera looks along when the button is pressed
Directions == {<<0, -1, 0>>, <<-1, 0, 0>>, <<1, 0, 0>>}

\* main.rs voxel_removal_system
voxel_removal_system ==
    /\ "voxel_removal_system" \notin ran
    /\ Ran("voxel_removal_system")
    /\ \/ UNCHANGED <<chunks, tasks, clicks>>
       \/ /\ clicks < MaxClicks
          /\ clicks' = clicks + 1
          /\ IF camera.present
             THEN \E ray_direction \in Directions :
                     LET found == World_raycast(camera.pos, ray_direction,
                                                VOXEL_REMOVAL_RANGE)
                         r == remove_voxel(found.chunk_key, found.voxel_pos)
                     IN IF found.hit
                        THEN chunks' = r.chunks /\ tasks' = tasks \o r.spawned
                        ELSE UNCHANGED <<chunks, tasks>>
             ELSE UNCHANGED <<chunks, tasks>>
    /\ UNCHANGED <<colVars, gridVars, chunk_entities, render_distance, last_player_chunk,
                   chunk_load_queue, chunk_unload_queue, chunk_last_accessed,
                   chunk_loading_queue, camera, now, entities>>

\* BinaryHeap::push: the new item, at pos, rises while it is greater than its
\* parent; PrioritizedChunk::cmp compares the distances the other way round
RECURSIVE sift_up(_, _)
sift_up(data, pos) ==
    IF pos = 1 THEN data
    ELSE LET parent == pos \div 2 IN
         IF ~(data[pos].distance < data[parent].distance) THEN data
         ELSE sift_up([data EXCEPT ![pos] = data[parent], ![parent] = data[pos]], parent)

RECURSIVE PushAll(_, _, _)
PushAll(data, items, i) ==
    IF i > Len(items) THEN data
    ELSE PushAll(sift_up(Append(data, items[i]), Len(data) + 1), items, i + 1)

\* main.rs prioritize_chunks
prioritize_chunks ==
    /\ "prioritize_chunks" \notin ran
    /\ Ran("prioritize_chunks")
    /\ IF camera.present
       THEN \E pc \in {PlayerChunk(camera.pos)} :
            \E cube \in {CubeSeq(pc, render_distance)} :
            \E items \in {[i \in 1..Len(cube) |->
                             [distance |-> Abs(cube[i][1] - pc[1]) + Abs(cube[i][2] - pc[2])
                                               + Abs(cube[i][3] - pc[3]),
                              chunk_key |-> cube[i]]]} :
            \E priority_queue \in {PushAll(<<>>, items, 1)} :
               chunk_loading_queue' =
                   [i \in 1..Len(priority_queue) |-> priority_queue[i].chunk_key]
       ELSE UNCHANGED chunk_loading_queue
    /\ UNCHANGED <<colVars, gridVars, chunks, chunk_entities, render_distance, last_player_chunk,
                   chunk_load_queue, chunk_unload_queue, chunk_last_accessed,
                   camera, now, tasks, entities, clicks>>

\* where the camera stands in chunk (cx, 0, 0): in the middle of its first column,
\* in the top layer
CameraSpot(cx) ==
    <<cx * WorldChunkSize * StepsPerUnit + 5,
      (WorldChunkSize - 1) * StepsPerUnit + 5,
      5>>

\* The end of a frame: the commands the systems queued are applied, the clock
\* advances, and the camera controller has moved the observer by at most a chunk.
EndFrame ==
    /\ ran = Systems
    /\ ran' = {}
    /\ tasks' = [i \in 1..Len(tasks) |-> [tasks[i] EXCEPT !.live = TRUE]]
    /\ entities' = [e \in {d \in DOMAIN entities : ~entities[d].despawn} |->
                       [entities[e] EXCEPT !.live = TRUE]]
    /\ \E dt \in MinDt..MaxDt : now + dt <= MaxTime /\ now' = now + dt
    /\ \E cx \in 0..MaxCameraChunk :
          /\ Abs(cx - PlayerChunk(camera.pos)[1]) <= 1
          /\ camera' = [camera EXCEPT !.pos = CameraSpot(cx)]
    /\ UNCHANGED <<colVars, gridVars, worldVars, clicks>>

InitWorldVars ==
    /\ chunks = NoMap
    /\ chunk_entities = NoMap
    /\ last_player_chunk = <<0, 0, 0>>
    /\ chunk_load_queue = <<>>
    /\ chunk_unload_queue = <<>>
    /\ chunk_last_accessed = NoMap
    /\ chunk_loading_queue = <<>>
    /\ camera = [present |-> TRUE, pos |-> CameraSpot(0)]
    /\ now = 0
    /\ ran = {}
    /\ tasks = <<>>
    /\ entities = NoMap
    /\ clicks = 0

InitColVars ==
    /\ terrain_state = [chunks |-> NoMap, chunks_to_update |-> {}, chunks_to_remove |-> {},
                        player_chunk |-> <<0, 0, 0>>]
    /\ centities = NoMap
    /\ edit_marks = {}
    /\ idle_marks = {}

(***************************************************************************)
(* SpecWorld: the streaming world under the Update schedule.  The systems  *)
(* of a frame run once each, in any order.                                 *)
(***************************************************************************)
InitWorld ==
    /\ chunk = ChunkNew(0, 0, 0)
    /\ cchunk = CChunkOf(<<0, 0, 0>>, <<>>, TRUE)
    /\ InitGridVars
    /\ InitWorldVars
    /\ InitColVars
    /\ render_distance \in RenderDistances

NextWorld ==
    \/ update_chunks
    \/ process_chunk_queue
    \/ handle_meshing_tasks
    \/ voxel_removal_system
    \/ prioritize_chunks
    \/ EndFrame

SpecWorld == InitWorld /\ [][NextWorld]_vars

(***************************************************************************)
(* SpecMesh: the mesher on every grid of at most MaxCells cells.           *)
(***************************************************************************)
InitMesh ==
    /\ chunk \in TerrainChunks(MaxCells)
    /\ cchunk = CChunkOf(<<0, 0, 0>>, <<>>, TRUE)
    /\ InitGridVars
    /\ InitWorldVars
    /\ InitColVars
    /\ render_distance = 0

NextMesh ==
    \/ MergeVoxels
    \/ GenerateMesh

SpecMesh == InitMesh /\ [][NextMesh]_vars

(***************************************************************************)
(* SpecGrid: get_voxel and set_voxel, inside and outside the grid, on one  *)
(* chunk of either variant.                                                *)
(***************************************************************************)
InitGrid ==
    /\ \/ chunk \in TerrainChunks(MaxGridCells) /\ cchunk = CChunkOf(<<0, 0, 0>>, <<>>, TRUE)
       \/ chunk = ChunkNew(0, 0, 0) /\ cchunk \in ColumnChunks(MaxGridCells)
    /\ InitGridVars
    /\ InitWorldVars
    /\ InitColVars
    /\ render_distance = 0

\* calls are made on the chunk that has cells
UnderTest(c) == Len(c.voxels) > 0

\* the usize coordinates of a call on an axis of length n: every one inside, and
\* the one MaxOutside past the end
UCoords(n) == (0..(n - 1)) \cup {n - 1 + MaxOutside}

\* the i32 coordinates of a call on an axis of length n: every one inside, and
\* the ones MaxOutside before the start and past the end
ICoords(n) == {-MaxOutside} \cup (0..(n - 1)) \cup {n - 1 + MaxOutside}

NextGrid ==
    \/ \E x \in UCoords(chunk.width), y \in UCoords(chunk.height), z \in UCoords(chunk.depth) :
          /\ UnderTest(chunk)
          /\ \/ GetVoxel(x, y, z)
             \/ \E value \in BOOLEAN : SetVoxel(x, y, z, value)
    \/ \E x \in ICoords(cchunk.width), y \in ICoords(cchunk.height),
          z \in ICoords(cchunk.depth), is_solid \in BOOLEAN :
          UnderTest(cchunk) /\ CSetVoxel(x, y, z, is_solid)

SpecGrid == InitGrid /\ [][NextGrid]_vars

(***************************************************************************)
(* chunk.rs / interaction.rs: the column variant.  Chunks lie in the plane *)
(* y = 0 and are entities carrying a Chunk component; TerrainState maps    *)
(* positions to them.  Positions are in thousandths of a unit (the step of *)
(* the interaction.rs raycast is 10 of them) and a direction is the vector *)
(* direction.normalize() * step; VOXEL_SIZE is 1.  The chunks built here   *)
(* have edge ColChunkSize and height TerrainHeight, and the render         *)
(* distance is ColRenderDistance.                                          *)
(***************************************************************************)
ColChunkSize == 2

TerrainHeight == 2

ColRenderDistance == 1

ColUnit == 1000

ColStep == 10

ColEpsilon == 10

MaxColClicks == 2

\* the height the noise gives the column at world (world_x, world_z), between 0 and
\* TERRAIN_HEIGHT
ColNoiseHeight(world_x, world_z) == (world_x + 2 * world_z) % (TerrainHeight + 1)

\* chunk.rs Chunk::new(position, width, height, depth)
CChunkNew(position, width, height, depth) ==
    [voxels |-> [i \in 1..(width * height * depth) |->
                    LET x == (i - 1) % width
                        y == ((i - 1) \div width) % height
                        z == (i - 1) \div (width * height)
                        world_x == position[1] * ColChunkSize + x
                        world_z == position[3] * ColChunkSize + z
                    IN y < Min(ColNoiseHeight(world_x, world_z), height)],
     width |-> width, height |-> height, depth |-> depth, dirty |-> TRUE]

\* the offsets of the six face neighbours, in the order of get_chunk_neighbors
neighbor_positions ==
    << <<-1, 0, 0>>, <<1, 0, 0>>, <<0, -1, 0>>, <<0, 1, 0>>, <<0, 0, -1>>, <<0, 0, 1>> >>

Plus(p, q) == <<p[1] + q[1], p[2] + q[2], p[3] + q[3]>>

NoChunk == [some |-> FALSE]

\* get_chunk_neighbors followed by the query: the Chunk components of the six face
\* neighbours of chunk_pos that TerrainState maps and the query can see
Neighbors(ts, ents, chunk_pos) ==
    [i \in 1..6 |->
        LET pos == Plus(chunk_pos, neighbor_positions[i]) IN
        IF pos \in DOMAIN ts.chunks /\ ents[ts.chunks[pos]].live
        THEN [some |-> TRUE, chunk |-> ents[ts.chunks[pos]].chunk]
        ELSE NoChunk]

\* a % b of Rust: the remainder has the sign of a
RustRem(a, b) == IF a >= 0 THEN a % b ELSE -((-a) % b)

\* Chunk::is_voxel_solid and Chunk::is_voxel_solid_raycast (the same but for a log
\* line): the cell inside the chunk, the cell of the face neighbour outside it
is_voxel_solid(c, x, y, z, neighbors) ==
    IF CInBounds(c, x, y, z)
    THEN c.voxels[x + y * c.width + z * c.width * c.height + 1]
    ELSE LET chunk_x == IF x < 0 THEN -1 ELSE IF x >= ColChunkSize THEN 1 ELSE 0
             chunk_y == IF y < 0 THEN -1 ELSE IF y >= c.height THEN 1 ELSE 0
             chunk_z == IF z < 0 THEN -1 ELSE IF z >= ColChunkSize THEN 1 ELSE 0
             offset == <<chunk_x, chunk_y, chunk_z>>
         IN IF \A i \in 1..6 : neighbor_positions[i] # offset THEN FALSE
            ELSE LET neighbor_index == CHOOSE i \in 1..6 : neighbor_positions[i] = offset
                     neighbor == neighbors[neighbor_index]
                 IN IF neighbor.some
                    THEN LET nx == RustRem(x + ColChunkSize, ColChunkSize)
                             ny == y % c.height
                             nz == RustRem(z + ColChunkSize, ColChunkSize)
                         IN neighbor.chunk.voxels[nx + ny * ColChunkSize
                                                  + nz * ColChunkSize * neighbor.chunk.height + 1]
                    ELSE FALSE

\* a visibility test that looks at the four side faces only
is_voxel_visible_sides(c, x, y, z, neighbors) ==
    \E i \in {1, 2, 5, 6} :
        ~is_voxel_solid(c, x + neighbor_positions[i][1], y + neighbor_positions[i][2],
                        z + neighbor_positions[i][3], neighbors)

\* Chunk::is_voxel_visible
is_voxel_visible(c, x, y, z, neighbors) ==
    \E i \in 1..6 :
        ~is_voxel_solid(c, x + neighbor_positions[i][1], y + neighbor_positions[i][2],
                        z + neighbor_positions[i][3], neighbors)

\* Chunk::calculate_normal: each open face adds its sign to the component of its axis
calculate_normal(c, x, y, z, neighbors) ==
    LET Open(i) == ~is_voxel_solid(c, x + neighbor_positions[i][1],
                                   y + neighbor_positions[i][2],
                                   z + neighbor_positions[i][3], neighbors)
        Sign(i) == neighbor_positions[i][1] + neighbor_positions[i][2]
                       + neighbor_positions[i][3]
        Add(i) == IF Open(i) THEN Sign(i) ELSE 0
    IN <<Add(1) + Add(2), Add(3) + Add(4), Add(5) + Add(6)>>

\* Chunk::generate_instance_data: one instance, with its world position and normal,
\* for every visible solid voxel, in the order of the loops over x, y, z
generate_instance_data(c, position, neighbors) ==
    LET order == [n \in 1..(c.width * c.height * c.depth) |->
                     <<(n - 1) \div (c.height * c.depth),
                       ((n - 1) \div c.depth) % c.height,
                       (n - 1) % c.depth>>]
        Shown(p) ==
            /\ c.voxels[p[1] + p[2] * c.width + p[3] * c.width * c.height + 1]
            /\ is_voxel_visible(c, p[1], p[2], p[3], neighbors)
        shown == SelectSeq(order, Shown)
    IN [n \in 1..Len(shown) |->
           [position |-> <<position[1] * ColChunkSize + shown[n][1],
                           position[2] * ColChunkSize + shown[n][2],
                           position[3] * ColChunkSize + shown[n][3]>>,
            normal |-> calculate_normal(c, shown[n][1], shown[n][2], shown[n][3],
                                        neighbors)]]

NoColHit == [hit |-> FALSE, chunk_pos |-> <<0, 0, 0>>, local_pos |-> <<0, 0, 0>>,
             normal |-> <<0, 0, 0>>]

\* interaction.rs calculate_hit_normal; f32::fract keeps the sign of its argument, and
\* the fallback is -ray_direction.normalize()
calculate_hit_normal(hit_pos, ray_direction) ==
    LET x == RustRem(hit_pos[1], ColUnit)
        y == RustRem(hit_pos[2], ColUnit)
        z == RustRem(hit_pos[3], ColUnit)
    IN IF x < ColEpsilon /\ ray_direction[1] < 0 THEN <<-ColUnit, 0, 0>>
       ELSE IF x > ColUnit - ColEpsilon /\ ray_direction[1] > 0 THEN <<ColUnit, 0, 0>>
       ELSE IF y < ColEpsilon /\ ray_direction[2] < 0 THEN <<0, -ColUnit, 0>>
       ELSE IF y > ColUnit - ColEpsilon /\ ray_direction[2] > 0 THEN <<0, ColUnit, 0>>
       ELSE IF z < ColEpsilon /\ ray_direction[3] < 0 THEN <<0, 0, -ColUnit>>
       ELSE IF z > ColUnit - ColEpsilon /\ ray_direction[3] > 0 THEN <<0, 0, ColUnit>>
       ELSE <<-(ray_direction[1] * ColUnit) \div ColStep,
              -(ray_direction[2] * ColUnit) \div ColStep,
              -(ray_direction[3] * ColUnit) \div ColStep>>

\* the chunk position interaction.rs and chunk.rs compute for a world position
ColChunkPos(pos) ==
    <<pos[1] \div (ColChunkSize * ColUnit), 0, pos[3] \div (ColChunkSize * ColUnit)>>

\* ColLocalPos with y taken by rem_euclid as well
ColLocalPos_wrapped_y(pos) ==
    <<(pos[1] % (ColChunkSize * ColUnit)) \div ColUnit,
      (pos[2] % (TerrainHeight * ColUnit)) \div ColUnit,
      (pos[3] % (ColChunkSize * ColUnit)) \div ColUnit>>

\* the local voxel position the raycast computes: x and z by rem_euclid, y by floor
ColLocalPos(pos) ==
    <<(pos[1] % (ColChunkSize * ColUnit)) \div ColUnit,
      pos[2] \div ColUnit,
      (pos[3] % (ColChunkSize * ColUnit)) \div ColUnit>>

\* interaction.rs raycast(origin, direction, max_distance, terrain_state, chunks): the
\* march over the samples origin + n * direction, n = 1 .. max_distance / step, in
\* runs of MarchBlock samples
interaction_raycast(ts, ents, origin, direction, max_distance) ==
    LET count == (max_distance * ColUnit) \div ColStep
        Pos(n) == <<origin[1] + n * direction[1], origin[2] + n * direction[2],
                    origin[3] + n * direction[3]>>
        Solid(n) ==
            LET chunk_pos == ColChunkPos(Pos(n))
                local_pos == ColLocalPos(Pos(n))
            IN /\ chunk_pos \in DOMAIN ts.chunks
               /\ ents[ts.chunks[chunk_pos]].live
               /\ is_voxel_solid(ents[ts.chunks[chunk_pos]].chunk,
                                 local_pos[1], local_pos[2], local_pos[3],
                                 Neighbors(ts, ents, chunk_pos))
        Found(n) == [hit |-> TRUE, chunk_pos |-> ColChunkPos(Pos(n)),
                     local_pos |-> ColLocalPos(Pos(n)),
                     normal |-> calculate_hit_normal(Pos(n), direction)]
        RECURSIVE Run(_, _)
        Run(n, last) ==
            IF n > last THEN NoColHit
            ELSE IF Solid(n) THEN Found(n)
            ELSE Run(n + 1, last)
        RECURSIVE Runs(_)
        Runs(first) ==
            IF first > count THEN NoColHit
            ELSE LET r == Run(first, Min(first + MarchBlock - 1, count)) IN
                 IF r.hit THEN r ELSE Runs(first + MarchBlock)
    IN Runs(1)

\* interaction.rs remove_voxel: the terrain state and the entities after it
col_remove_voxel(ts, ents, chunk_pos, voxel_pos) ==
    IF chunk_pos \in DOMAIN ts.chunks /\ ents[ts.chunks[chunk_pos]].live
    THEN LET chunk_entity == ts.chunks[chunk_pos]
             r == cset_voxel_call(ents[chunk_entity].chunk,
                                  voxel_pos[1], voxel_pos[2], voxel_pos[3], FALSE)
             Edge(i) ==
                 \/ i = 1 /\ voxel_pos[1] = 0
                 \/ i = 2 /\ voxel_pos[1] = ColChunkSize - 1
                 \/ i = 3 /\ voxel_pos[2] = 0
                 \/ i = 4 /\ voxel_pos[2] = ColChunkSize - 1
                 \/ i = 5 /\ voxel_pos[3] = 0
                 \/ i = 6 /\ voxel_pos[3] = ColChunkSize - 1
             inserted == {chunk_pos} \cup
                             {Plus(chunk_pos, neighbor_positions[i]) : i \in {j \in 1..6 : Edge(j)}}
         IN [ts |-> [ts EXCEPT !.chunks_to_update = @ \cup inserted],
             ents |-> [ents EXCEPT ![chunk_entity].chunk = r.chunk],
             inserted |-> inserted]
    ELSE [ts |-> ts, ents |-> ents, inserted |-> {}]

ColSystems == {"mark_chunks_for_update", "update_marked_chunks", "remove_marked_chunks",
               "prepare_chunk_updates", "apply_chunk_updates", "handle_mouse_input"}

\* The order of the systems within a tick: streaming decisions, then the creation and
\* eviction of chunks, then the preparation of mesh data, then its application; the
\* interaction runs at any point of the tick.
RunsAfter(system) ==
    CASE system = "mark_chunks_for_update" -> {}
      [] system = "update_marked_chunks" -> {"mark_chunks_for_update"}
      [] system = "remove_marked_chunks" -> {"mark_chunks_for_update"}
      [] system = "prepare_chunk_updates" -> {"update_marked_chunks", "remove_marked_chunks"}
      [] system = "apply_chunk_updates" -> {"prepare_chunk_updates"}
      [] system = "handle_mouse_input" -> {}

\* system runs now: it has not run in this tick, the systems it follows have, and no
\* system has panicked
ColRan(system) ==
    /\ ~panicked
    /\ system \notin ran
    /\ RunsAfter(system) \subseteq ran
    /\ ran' = ran \cup {system}

NoData == [some |-> FALSE, data |-> <<>>]

\* the queued commands are applied: despawns, spawns, then the inserts and the removals
\* of PreparedInstanceData
ApplyDeferred(ents) ==
    [e \in {d \in DOMAIN ents : ~ents[d].despawn} |->
        [ents[e] EXCEPT !.live = TRUE,
                        !.prepared = IF ents[e].remove_prepared THEN NoData
                                     ELSE IF ents[e].insert_prepared.some
                                          THEN ents[e].insert_prepared
                                          ELSE @,
                        !.insert_prepared = NoData,
                        !.remove_prepared = FALSE]]

\* chunk.rs mark_chunks_for_update
mark_chunks_for_update ==
    /\ ColRan("mark_chunks_for_update")
    /\ IF ~camera.present
       THEN /\ panicked' = TRUE
            /\ UNCHANGED <<terrain_state, edit_marks, idle_marks>>
       ELSE LET new_player_chunk == ColChunkPos(camera.pos)
                wanted == {Plus(new_player_chunk, <<x, 0, z>>) :
                              x \in (-ColRenderDistance)..ColRenderDistance,
                              z \in (-ColRenderDistance)..ColRenderDistance}
                positions_to_remove ==
                    {pos \in DOMAIN terrain_state.chunks :
                        \/ Abs(pos[1] - new_player_chunk[1]) > ColRenderDistance
                        \/ Abs(pos[2] - new_player_chunk[2]) > ColRenderDistance
                        \/ Abs(pos[3] - new_player_chunk[3]) > ColRenderDistance}
            IN /\ panicked' = FALSE
               /\ IF new_player_chunk # terrain_state.player_chunk
                  THEN /\ terrain_state' = [terrain_state EXCEPT
                                               !.player_chunk = new_player_chunk,
                                               !.chunks_to_update = wanted,
                                               !.chunks_to_remove = positions_to_remove]
                       /\ edit_marks' = {}
                       /\ idle_marks' = {}
                  ELSE UNCHANGED <<terrain_state, edit_marks, idle_marks>>
    /\ UNCHANGED <<chunk, cchunk, call, ret, boxes, mesh, worldVars,
                   camera, now, tasks, entities, clicks, centities>>

\* chunk.rs update_marked_chunks
update_marked_chunks ==
    /\ ColRan("update_marked_chunks")
    /\ \E missing \in {terrain_state.chunks_to_update \ DOMAIN terrain_state.chunks} :
       \E spawned \in {[pos \in missing |-> NewEntity(centities, pos)]} :
          /\ centities' =
                 [e \in {spawned[pos] : pos \in missing} |->
                     [position |-> e[1],
                      chunk |-> CChunkNew(e[1], ColChunkSize, TerrainHeight, ColChunkSize),
                      data |-> <<>>, prepared |-> NoData, insert_prepared |-> NoData,
                      remove_prepared |-> FALSE, live |-> FALSE, despawn |-> FALSE]]
                 @@ centities
          /\ terrain_state' = [terrain_state EXCEPT !.chunks = spawned @@ @,
                                                    !.chunks_to_update = {}]
    /\ edit_marks' = {}
    /\ idle_marks' = {}
    /\ UNCHANGED <<gridVars, worldVars, camera, now, tasks, entities, clicks>>

\* chunk.rs remove_marked_chunks
remove_marked_chunks ==
    /\ ColRan("remove_marked_chunks")
    /\ \E removed \in {terrain_state.chunks_to_remove \cap DOMAIN terrain_state.chunks} :
          /\ centities' = [e \in DOMAIN centities |->
                              IF centities[e].position \in removed
                                     /\ terrain_state.chunks[centities[e].position] = e
                              THEN [centities[e] EXCEPT !.despawn = TRUE]
                              ELSE centities[e]]
          /\ terrain_state' =
                 [terrain_state EXCEPT
                     !.chunks = Restrict(@, DOMAIN @ \ removed),
                     !.chunks_to_remove = {}]
    /\ UNCHANGED <<gridVars, worldVars, camera, now, tasks, entities, clicks,
                   edit_marks, idle_marks>>

\* chunk.rs prepare_chunk_updates; the command that inserts PreparedInstanceData is
\* queued
prepare_chunk_updates ==
    /\ ColRan("prepare_chunk_updates")
    /\ \E ents \in {centities} :
       \E dirty \in {{pos \in terrain_state.chunks_to_update \cap DOMAIN terrain_state.chunks :
                         /\ ents[terrain_state.chunks[pos]].live
                         /\ ents[terrain_state.chunks[pos]].chunk.dirty}} :
          centities' =
              [e \in DOMAIN ents |->
                  IF ents[e].position \in dirty /\ terrain_state.chunks[ents[e].position] = e
                  THEN [ents[e] EXCEPT !.insert_prepared =
                           [some |-> TRUE,
                            data |-> generate_instance_data(
                                         ents[e].chunk, ents[e].position,
                                         Neighbors(terrain_state, ents, ents[e].position))]]
                  ELSE ents[e]]
    /\ UNCHANGED <<gridVars, worldVars, camera, now, tasks, entities, clicks,
                   terrain_state, edit_marks, idle_marks>>

\* chunk.rs apply_chunk_updates: it meets the PreparedInstanceData that the commands
\* applied so far have inserted
apply_chunk_updates ==
    /\ ColRan("apply_chunk_updates")
    /\ \E ents \in {centities} :
          centities' =
              [e \in DOMAIN ents |->
                  IF ents[e].prepared.some
                  THEN [ents[e] EXCEPT !.data = ents[e].prepared.data,
                                       !.chunk.dirty = FALSE,
                                       !.remove_prepared = TRUE]
                  ELSE ents[e]]
    /\ UNCHANGED <<gridVars, worldVars, camera, now, tasks, entities, clicks,
                   terrain_state, edit_marks, idle_marks>>

\* the rays handle_mouse_input gets from the camera and the cursor: straight down,
\* along x in both senses, and down at a slope of 4 in 3
ColDirections == {<<0, -10, 0>>, <<-10, 0, 0>>, <<10, 0, 0>>, <<6, -8, 0>>}

MouseMaxDistance == 10

\* interaction.rs handle_mouse_input
handle_mouse_input ==
    /\ ColRan("handle_mouse_input")
    /\ \/ UNCHANGED <<terrain_state, centities, edit_marks, idle_marks, clicks, panicked>>
       \/ /\ clicks < MaxColClicks
          /\ clicks' = clicks + 1
          /\ IF ~camera.present
             THEN /\ panicked' = TRUE
                  /\ UNCHANGED <<terrain_state, centities, edit_marks, idle_marks>>
             ELSE /\ panicked' = FALSE
                  /\ \E direction \in ColDirections :
                     \E found \in {interaction_raycast(terrain_state, centities, camera.pos,
                                                       direction, MouseMaxDistance)} :
                        IF found.hit
                        THEN \E r \in {col_remove_voxel(terrain_state, centities,
                                                        found.chunk_pos, found.local_pos)} :
                                /\ terrain_state' = r.ts
                                /\ centities' = r.ents
                                /\ edit_marks' = edit_marks \cup r.inserted
                                /\ idle_marks' =
                                       IF r.ents = centities
                                       THEN idle_marks \cup
                                                (r.inserted \ terrain_state.chunks_to_update)
                                       ELSE idle_marks \ r.inserted
                        ELSE UNCHANGED <<terrain_state, centities, edit_marks, idle_marks>>
    /\ UNCHANGED <<chunk, cchunk, call, ret, boxes, mesh, worldVars,
                   camera, now, tasks, entities>>

\* where the camera stands over chunk (cx, 0, 0): half a unit above the terrain, over
\* the middle of the column at local (0, 1)
ColCameraSpot(cx) ==
    <<cx * ColChunkSize * ColUnit + ColUnit \div 2,
      TerrainHeight * ColUnit + ColUnit \div 2,
      ColUnit + ColUnit \div 2>>

\* The end of a tick: the queued commands are applied and the camera controller has
\* moved the observer by at most a chunk.
ColEndFrame ==
    /\ ~panicked
    /\ ran = ColSystems
    /\ ran' = {}
    /\ centities' = ApplyDeferred(centities)
    /\ \E cx \in 0..MaxCameraChunk :
          /\ Abs(cx - ColChunkPos(camera.pos)[1]) <= 1
          /\ camera' = [camera EXCEPT !.pos = ColCameraSpot(cx)]
    /\ UNCHANGED <<gridVars, worldVars, now, tasks, entities, clicks,
                   terrain_state, edit_marks, idle_marks>>

(***************************************************************************)
(* SpecColumn: the column variant, tick after tick, with or without an     *)
(* observer.                                                               *)
(***************************************************************************)
\* the player_chunk of a TerrainState that has not seen the observer yet
NoPlayerChunk == <<-1000, 0, -1000>>

InitColumn ==
    /\ chunk = ChunkNew(0, 0, 0)
    /\ cchunk = CChunkOf(<<0, 0, 0>>, <<>>, TRUE)
    /\ InitGridVars
    /\ chunks = NoMap
    /\ chunk_entities = NoMap
    /\ render_distance = 0
    /\ last_player_chunk = <<0, 0, 0>>
    /\ chunk_load_queue = <<>>
    /\ chunk_unload_queue = <<>>
    /\ chunk_last_accessed = NoMap
    /\ chunk_loading_queue = <<>>
    /\ \E present \in BOOLEAN : camera = [present |-> present, pos |-> ColCameraSpot(0)]
    /\ now = 0
    /\ ran = {}
    /\ tasks = <<>>
    /\ entities = NoMap
    /\ clicks = 0
    /\ \E player_chunk \in {<<0, 0, 0>>, NoPlayerChunk} :
          terrain_state = [chunks |-> NoMap, chunks_to_update |-> {},
                           chunks_to_remove |-> {}, player_chunk |-> player_chunk]
    /\ centities = NoMap
    /\ edit_marks = {}
    /\ idle_marks = {}

NextColumn ==
    \/ mark_chunks_for_update
    \/ update_marked_chunks
    \/ remove_marked_chunks
    \/ prepare_chunk_updates
    \/ apply_chunk_updates
    \/ handle_mouse_input
    \/ ColEndFrame

SpecColumn == InitColumn /\ [][NextColumn]_vars

(***************************************************************************)
(* SpecRay: the two raycasters on worlds of up to three chunks in a row,   *)
(* each absent, freshly generated, or empty but for the cell (0, 0, 0).    *)
(***************************************************************************)
RayKeys == {<<-1, 0, 0>>, <<0, 0, 0>>, <<1, 0, 0>>}

RayKinds == {"absent", "terrain", "corner"}

\* the world.rs chunk of a kind at key k
RayChunk(kind, k) ==
    IF kind = "terrain"
    THEN generate_terrain(ChunkNew(WorldChunkSize, WorldChunkSize, WorldChunkSize),
                          k[1], k[2], k[3])
    ELSE ChunkOf(<<WorldChunkSize, WorldChunkSize, WorldChunkSize>>,
                 [i \in 1..(WorldChunkSize * WorldChunkSize * WorldChunkSize) |-> i = 1])

\* the chunk.rs chunk entity of a kind at position k, as it is once it has been spawned
RayEntity(kind, k) ==
    [position |-> k,
     chunk |-> IF kind = "terrain"
               THEN CChunkNew(k, ColChunkSize, TerrainHeight, ColChunkSize)
               ELSE CChunkOf(<<ColChunkSize, TerrainHeight, ColChunkSize>>,
                             [i \in 1..(ColChunkSize * TerrainHeight * ColChunkSize) |-> i = 1],
                             TRUE),
     data |-> <<>>, prepared |-> NoData, insert_prepared |-> NoData,
     remove_prepared |-> FALSE, live |-> TRUE, despawn |-> FALSE]

\* the rays cast in the volumetric world: origin (in tenths) and direction
WorldRays ==
    {[origin |-> <<-25, 5, 5>>, direction |-> <<1, 0, 0>>],
     [origin |-> <<55, 5, 5>>, direction |-> <<-1, 0, 0>>],
     [origin |-> <<5, 35, 15>>, direction |-> <<0, -1, 0>>]}

\* the rays cast in the column world: origin (in thousandths) and direction
ColumnRays ==
    {[origin |-> <<-5000, 500, 500>>, direction |-> <<10, 0, 0>>],
     [origin |-> <<5500, 500, 500>>, direction |-> <<-10, 0, 0>>],
     [origin |-> <<500, 2500, 1500>>, direction |-> <<0, -10, 0>>],
     [origin |-> <<-700, 1500, 500>>, direction |-> <<6, -8, 0>>],
     [origin |-> <<1500, 1900, 1990>>, direction |-> <<6, -8, 0>>]}

RayDistances == {2, 10}

InitRay ==
    /\ chunk = ChunkNew(0, 0, 0)
    /\ cchunk = CChunkOf(<<0, 0, 0>>, <<>>, TRUE)
    /\ InitGridVars
    /\ \E kinds \in [RayKeys -> RayKinds] :
       \E present \in {{k \in RayKeys : kinds[k] # "absent"}} :
          /\ chunks = [k \in present |-> RayChunk(kinds[k], k)]
          /\ terrain_state = [chunks |-> [k \in present |-> <<k, 0>>],
                              chunks_to_update |-> {}, chunks_to_remove |-> {},
                              player_chunk |-> <<0, 0, 0>>]
          /\ centities = [e \in {<<k, 0>> : k \in present} |-> RayEntity(kinds[e[1]], e[1])]
    /\ chunk_entities = NoMap
    /\ render_distance = 1
    /\ last_player_chunk = <<0, 0, 0>>
    /\ chunk_load_queue = <<>>
    /\ chunk_unload_queue = <<>>
    /\ chunk_last_accessed = NoMap
    /\ chunk_loading_queue = <<>>
    /\ camera = [present |-> FALSE, pos |-> <<0, 0, 0>>]
    /\ now = 0
    /\ ran = {}
    /\ tasks = <<>>
    /\ entities = NoMap
    /\ clicks = 0
    /\ edit_marks = {}
    /\ idle_marks = {}

\* World::raycast(origin, direction, max_distance) on the world
WorldRaycast ==
    /\ \E ray \in WorldRays, max_distance \in RayDistances :
          /\ call' = [name |-> "World::raycast", origin |-> ray.origin,
                      direction |-> ray.direction, max_distance |-> max_distance]
          /\ ret' = World_raycast(ray.origin, ray.direction, max_distance)
    /\ UNCHANGED <<chunk, cchunk, panicked, boxes, mesh, worldVars, hostVars, colVars>>

\* interaction.rs raycast(origin, direction, max_distance, terrain_state, chunks)
InteractionRaycast ==
    /\ \E ray \in ColumnRays, max_distance \in RayDistances :
          /\ call' = [name |-> "interaction.rs raycast", origin |-> ray.origin,
                      direction |-> ray.direction, max_distance |-> max_distance]
          /\ ret' = interaction_raycast(terrain_state, centities, ray.origin,
                                        ray.direction, max_distance)
    /\ UNCHANGED <<chunk, cchunk, panicked, boxes, mesh, worldVars, hostVars, colVars>>

NextRay ==
    \/ WorldRaycast
    \/ InteractionRaycast

SpecRay == InitRay /\ [][NextRay]_vars

(***************************************************************************)
(* SpecTerrain: terrain generation of both variants at the chunk           *)
(* coordinates within MaxChunkCoord of the origin.                         *)
(***************************************************************************)
MaxChunkCoord == 2

ChunkCoords == (-MaxChunkCoord)..MaxChunkCoord

\* Chunk::new followed by Chunk::generate_terrain(chunk_x, chunk_y, chunk_z), as in
\* World::process_queue
GenerateTerrain ==
    /\ \E chunk_x \in ChunkCoords, chunk_y \in ChunkCoords, chunk_z \in ChunkCoords :
          /\ call' = Call("generate_terrain", chunk_x, chunk_y, chunk_z, FALSE)
          /\ chunk' = generate_terrain(
                          ChunkNew(WorldChunkSize, WorldChunkSize, WorldChunkSize),
                          chunk_x, chunk_y, chunk_z)
    /\ UNCHANGED <<cchunk, ret, panicked, boxes, mesh, worldVars, hostVars, colVars>>

\* chunk.rs Chunk::new(position, CHUNK_SIZE, TERRAIN_HEIGHT, CHUNK_SIZE), as in
\* update_marked_chunks
NewColumnChunk ==
    /\ \E x \in ChunkCoords, z \in ChunkCoords :
          /\ call' = Call("chunk.rs new", x, 0, z, FALSE)
          /\ cchunk' = CChunkNew(<<x, 0, z>>, ColChunkSize, TerrainHeight, ColChunkSize)
    /\ UNCHANGED <<chunk, ret, panicked, boxes, mesh, worldVars, hostVars, colVars>>

InitTerrain ==
    /\ chunk = ChunkNew(0, 0, 0)
    /\ cchunk = CChunkOf(<<0, 0, 0>>, <<>>, TRUE)
    /\ InitGridVars
    /\ InitWorldVars
    /\ InitColVars
    /\ render_distance = 0

NextTerrain ==
    \/ GenerateTerrain
    \/ NewColumnChunk

SpecTerrain == InitTerrain /\ [][NextTerrain]_vars

(***************************************************************************)
(* SpecRemesh: the mesher called again and again on grids of at most       *)
(* MaxGridCells cells whose cells are edited between the calls, so that a  *)
(* call finds the boxified array as an earlier call left it.               *)
(***************************************************************************)
\* Chunk::merge_voxels called once more on the chunk it has just returned from
MergeVoxelsAgain ==
    LET r == merge_voxels(chunk) IN
    /\ call.name \in {"merge_voxels", "merge_voxels again"}
    /\ call' = Call("merge_voxels again", 0, 0, 0, FALSE)
    /\ chunk' = [chunk EXCEPT !.boxified = r.boxified]
    /\ boxes' = r.boxes
    /\ mesh' = EmptyMesh
    /\ UNCHANGED <<cchunk, ret, panicked>>
    /\ UNCHANGED <<worldVars, hostVars, colVars>>

InitRemesh ==
    /\ chunk \in TerrainChunks(MaxGridCells)
    /\ cchunk = CChunkOf(<<0, 0, 0>>, <<>>, TRUE)
    /\ InitGridVars
    /\ InitWorldVars
    /\ InitColVars
    /\ render_distance = 0

NextRemesh ==
    \/ MergeVoxels
    \/ MergeVoxelsAgain
    \/ GenerateMesh
    \/ \E x \in 0..(chunk.width - 1), y \in 0..(chunk.height - 1),
          z \in 0..(chunk.depth - 1), value \in BOOLEAN : SetVoxel(x, y, z, value)

SpecRemesh == InitRemesh /\ [][NextRemesh]_vars

(***************************************************************************)
(* SpecSample: the chunk key and the local voxel position World::raycast   *)
(* computes for one sample position, in f32 arithmetic, at the sample      *)
(* positions within MaxUlps f32 steps of the voxel boundaries of the       *)
(* chunks around the origin.  An f32 is held as its count of F32Unit.      *)
(***************************************************************************)
\* main.rs CHUNK_SIZE, the chunk_size of the World main builds
CHUNK_SIZE == 16

\* 2^23: an f32 between 1 and 2 is a multiple of 2^-23
F32Unit == 8388608

\* sample positions lie within MaxUlps * 2^-23 of a whole coordinate
MaxUlps == 8

\* the gap between neighbouring f32 values at n, at least p
RECURSIVE F32Spacing(_, _)
F32Spacing(n, p) == IF Abs(n) < 2 * p * F32Unit THEN p ELSE F32Spacing(n, 2 * p)

\* the f32 nearest to n, the one with the even significand on a tie: the rounding
\* of the result of an f32 operation
F32Round(n) ==
    LET u == F32Spacing(n, 1)
        q == n \div u
        r == n % u
    IN IF 2 * r < u THEN q * u
       ELSE IF 2 * r > u THEN (q + 1) * u
       ELSE IF q % 2 = 0 THEN q * u ELSE (q + 1) * u

\* f32::rem_euclid(rhs): r = self % rhs, which is exact and has the sign of self,
\* then r + rhs, which is rounded, when r < 0
f32_rem_euclid(n, rhs) ==
    LET r == IF n < 0 THEN -((-n) % rhs) ELSE n % rhs IN
    IF r < 0 THEN F32Round(r + rhs) ELSE r

\* (current_pos.x / chunk_size as f32).floor() as i32; the division by CHUNK_SIZE,
\* a power of two, is exact
SampleChunk(n) == n \div (CHUNK_SIZE * F32Unit)

\* (current_pos.x.rem_euclid(chunk_size as f32) as usize).min(chunk_size - 1)
SampleLocal(n) == Min(f32_rem_euclid(n, CHUNK_SIZE * F32Unit) \div F32Unit, CHUNK_SIZE - 1)

\* the f32 values within MaxUlps units of a whole coordinate of the chunks -1 and 0
SampleCoords ==
    {n \in {k * F32Unit + d : k \in (-CHUNK_SIZE)..CHUNK_SIZE, d \in (-MaxUlps)..MaxUlps} :
        F32Round(n) = n}

\* the sample positions: one coordinate near a voxel boundary, the other two at 0
SamplePositions ==
    UNION {{<<n, 0, 0>>, <<0, n, 0>>, <<0, 0, n>>} : n \in SampleCoords}

\* one pass of the loop of World::raycast at the sample position current_pos: the
\* chunk key and the local position it reads the voxel at
RaycastSample ==
    /\ \E current_pos \in SamplePositions :
          /\ call' = [name |-> "World::raycast sample", current_pos |-> current_pos]
          /\ ret' = [chunk_key |-> <<SampleChunk(current_pos[1]), SampleChunk(current_pos[2]),
                                     SampleChunk(current_pos[3])>>,
                     voxel_pos |-> <<SampleLocal(current_pos[1]), SampleLocal(current_pos[2]),
                                     SampleLocal(current_pos[3])>>]
    /\ UNCHANGED <<chunk, cchunk, panicked, boxes, mesh, worldVars, hostVars, colVars>>

InitSample ==
    /\ chunk = ChunkNew(0, 0, 0)
    /\ cchunk = CChunkOf(<<0, 0, 0>>, <<>>, TRUE)
    /\ InitGridVars
    /\ InitWorldVars
    /\ InitColVars
    /\ render_distance = 0

NextSample == RaycastSample

SpecSample == InitSample /\ [][NextSample]_vars

(***************************************************************************)
(* SpecInstances: Chunk::generate_instance_data of chunk.rs on the chunk   *)
(* at (0, 0, 0), solid but for at most MaxRemoved cells, whose six face    *)
(* neighbours are each absent, solid throughout, or empty but for the cell *)
(* (0, 0, 0).                                                              *)
(***************************************************************************)
MaxRemoved == 1

NeighborKinds == {"absent", "full", "corner"}

NeighborKeys == {neighbor_positions[i] : i \in 1..6}

\* the chunk entity of a kind at position k, as it is once it has been spawned
NeighborEntity(kind, k) ==
    [position |-> k,
     chunk |-> CChunkOf(<<ColChunkSize, TerrainHeight, ColChunkSize>>,
                        [i \in 1..(ColChunkSize * TerrainHeight * ColChunkSize) |->
                            kind = "full" \/ i = 1],
                        TRUE),
     data |-> <<>>, prepared |-> NoData, insert_prepared |-> NoData,
     remove_prepared |-> FALSE, live |-> TRUE, despawn |-> FALSE]

\* chunk.generate_instance_data(&neighbors) on the chunk at (0, 0, 0), with the
\* neighbours prepare_chunk_updates collects for it
GenerateInstanceData ==
    /\ call' = Call("generate_instance_data", 0, 0, 0, FALSE)
    /\ ret' = generate_instance_data(cchunk, <<0, 0, 0>>,
                                     Neighbors(terrain_state, centities, <<0, 0, 0>>))
    /\ UNCHANGED <<chunk, cchunk, panicked, boxes, mesh, worldVars, hostVars, colVars>>

InitInstances ==
    /\ chunk = ChunkNew(0, 0, 0)
    /\ \E removed \in {S \in SUBSET (1..(ColChunkSize * TerrainHeight * ColChunkSize)) :
                          Cardinality(S) <= MaxRemoved} :
          cchunk = CChunkOf(<<ColChunkSize, TerrainHeight, ColChunkSize>>,
                            [i \in 1..(ColChunkSize * TerrainHeight * ColChunkSize) |->
                                i \notin removed],
                            TRUE)
    /\ InitGridVars
    /\ InitWorldVars
    /\ \E kinds \in [NeighborKeys -> NeighborKinds] :
       \E present \in {{k \in NeighborKeys : kinds[k] # "absent"}} :
          /\ terrain_state = [chunks |-> [k \in present |-> <<k, 0>>],
                              chunks_to_update |-> {}, chunks_to_remove |-> {},
                              player_chunk |-> <<0, 0, 0>>]
          /\ centities = [e \in {<<k, 0>> : k \in present} |-> NeighborEntity(kinds[e[1]], e[1])]
    /\ edit_marks = {}
    /\ idle_marks = {}
    /\ render_distance = 0

NextInstances == GenerateInstanceData

SpecInstances == InitInstances /\ [][NextInstances]_vars

(***************************************************************************)
(*                              CLAIMS                                     *)
(***************************************************************************)
\* the cells of grid c, as coordinates
Cells(c) == (0..(c.width - 1)) \X (0..(c.height - 1)) \X (0..(c.depth - 1))

\* cell p lies in box bx = (x, y, z, nx, ny, nz)
InBox(p, bx) ==
    /\ bx[1] <= p[1] /\ p[1] < bx[1] + bx[4]
    /\ bx[2] <= p[2] /\ p[2] < bx[2] + bx[5]
    /\ bx[3] <= p[3] /\ p[3] < bx[3] + bx[6]

\* the cell of p read straight from the array, by the layout of the data model
CellAt(c, p) == c.voxels[p[1] + p[2] * c.width + p[3] * c.width * c.height + 1]

AllSolid(c) == \A p \in Cells(c) : CellAt(c, p)
AllEmpty(c) == \A p \in Cells(c) : ~CellAt(c, p)

\* C1: after merge_voxels, every box lies inside the grid with extents of at least
\* one, every solid cell lies in exactly one box and no empty cell lies in any box
\* (so occupancy rebuilt from the boxes is the grid and no two boxes overlap).
C1_BoxesCoverSolidExactlyOnce ==
    call.name = "merge_voxels" =>
        /\ \A n \in 1..Len(boxes) :
              /\ boxes[n][4] >= 1 /\ boxes[n][5] >= 1 /\ boxes[n][6] >= 1
              /\ boxes[n][1] + boxes[n][4] <= chunk.width
              /\ boxes[n][2] + boxes[n][5] <= chunk.height
              /\ boxes[n][3] + boxes[n][6] <= chunk.depth
        /\ \A p \in Cells(chunk) :
              Cardinality({n \in 1..Len(boxes) : InBox(p, boxes[n])})
                  = IF CellAt(chunk, p) THEN 1 ELSE 0

\* a 2x2x2 grid with solid and empty cells merged into several boxes, one of them
\* larger than a cell
C1_Witness ==
    /\ call.name = "merge_voxels"
    /\ chunk.width = 2 /\ chunk.height = 2 /\ chunk.depth = 2
    /\ Len(boxes) >= 3
    /\ \E p \in Cells(chunk) : ~CellAt(chunk, p)
    /\ \E n \in 1..Len(boxes) : boxes[n][4] * boxes[n][5] * boxes[n][6] >= 2

\* C2: merge_voxels on an all-solid w x h x d grid returns the single box
\* (0, 0, 0, w, h, d).
C2_AllSolidOneBox ==
    (call.name = "merge_voxels" /\ AllSolid(chunk)) =>
        boxes = << <<0, 0, 0, chunk.width, chunk.height, chunk.depth>> >>

\* the all-solid 2x2x2 grid has been merged
C2_Witness ==
    /\ call.name = "merge_voxels"
    /\ AllSolid(chunk)
    /\ chunk.width = 2 /\ chunk.height = 2 /\ chunk.depth = 2
    /\ Len(boxes) = 1

\* C3: on an all-empty grid merge_voxels returns no box and generate_mesh returns
\* a mesh without positions, normals, UVs and indices.
C3_AllEmptyNoBoxesEmptyMesh ==
    AllEmpty(chunk) =>
        /\ call.name = "merge_voxels" => boxes = <<>>
        /\ call.name = "generate_mesh" =>
              /\ Len(mesh.positions) = 0
              /\ Len(mesh.normals) = 0
              /\ Len(mesh.uvs) = 0
              /\ Len(mesh.indices) = 0

\* generate_mesh has run on the all-empty 2x2x2 grid
C3_Witness ==
    /\ call.name = "generate_mesh"
    /\ AllEmpty(chunk)
    /\ chunk.width = 2 /\ chunk.height = 2 /\ chunk.depth = 2
    /\ mesh = EmptyMesh

\* the coordinates of a call lie inside the terrain.rs grid c
CallInside(k, c) ==
    /\ k.x \in 0..(c.width - 1) /\ k.y \in 0..(c.height - 1) /\ k.z \in 0..(c.depth - 1)

\* C4: a set_voxel(x, y, z, v) at an in-bounds coordinate makes get_voxel(x, y, z)
\* read v and leaves what get_voxel reads at every other coordinate, and the
\* dimensions, as they were; and a get_voxel that follows it at once returns v.
C4_SetThenGet ==
    [][ /\ (call'.name = "set_voxel" /\ CallInside(call', chunk)) =>
              /\ get_voxel(chunk', call'.x, call'.y, call'.z) = call'.value
              /\ \A p \in Cells(chunk) :
                    p # <<call'.x, call'.y, call'.z>> =>
                        get_voxel(chunk', p[1], p[2], p[3]) = get_voxel(chunk, p[1], p[2], p[3])
              /\ chunk'.width = chunk.width /\ chunk'.height = chunk.height
              /\ chunk'.depth = chunk.depth /\ Len(chunk'.voxels) = Len(chunk.voxels)
        /\ (/\ call.name = "set_voxel" /\ CallInside(call, chunk)
            /\ call'.name = "get_voxel"
            /\ call'.x = call.x /\ call'.y = call.y /\ call'.z = call.z) =>
              ret' = call.value
      ]_vars

\* set_voxel(.., true) has just written a cell with z > 0 of a grid that keeps an
\* empty cell
C4_Witness ==
    /\ call.name = "set_voxel" /\ CallInside(call, chunk)
    /\ call.value /\ call.z > 0
    /\ CellAt(chunk, <<call.x, call.y, call.z>>)
    /\ \E p \in Cells(chunk) : ~CellAt(chunk, p)

\* the coordinates of a call lie outside the grid c (of either variant)
CallOutside(k, c) ==
    \/ k.x < 0 \/ k.x >= c.width
    \/ k.y < 0 \/ k.y >= c.height
    \/ k.z < 0 \/ k.z >= c.depth

\* C5: no call indexes the cell array outside its length; get_voxel at a
\* coordinate outside the grid returns false; set_voxel at such a coordinate leaves
\* the chunk as it was, and in the chunk.rs variant the cells and the dirty flag.
C5_OutOfBoundsIsNoError ==
    [][ /\ panicked' = FALSE
        /\ (call'.name = "get_voxel" /\ CallOutside(call', chunk)) => ret' = FALSE
        /\ (call'.name = "set_voxel" /\ CallOutside(call', chunk)) => chunk' = chunk
        /\ (call'.name = "chunk.rs set_voxel" /\ CallOutside(call', cchunk)) =>
              (cchunk'.voxels = cchunk.voxels /\ cchunk'.dirty = cchunk.dirty)
      ]_vars

\* chunk.rs set_voxel with x < 0 and value true has been called on a clean chunk with an empty
\* cell
C5_Witness ==
    /\ call.name = "chunk.rs set_voxel"
    /\ call.x < 0 /\ call.value
    /\ ~cchunk.dirty
    /\ \E i \in 1..Len(cchunk.voxels) : ~cchunk.voxels[i]


\* the want set of an observer in chunk pc: the coordinates at Chebyshev distance at
\* most r
WantSet(pc, r) ==
    {k \in ((pc[1] - r)..(pc[1] + r)) \X ((pc[2] - r)..(pc[2] + r)) \X ((pc[3] - r)..(pc[3] + r)) :
        TRUE}

\* the step is the run of system s in its frame
StepOf(s) == s \notin ran /\ s \in ran'

\* the terrain a chunk has when it is loaded
FreshTerrain(k) ==
    generate_terrain(ChunkNew(WorldChunkSize, WorldChunkSize, WorldChunkSize), k[1], k[2], k[3])

\* the chunks the observer of the model can stand in
ObserverChunks == {<<cx, 0, 0>> : cx \in 0..MaxCameraChunk}

\* C6: when process_chunk_queue runs after update_chunks has run for the observer
\* chunk last_player_chunk, the resident coordinates become exactly the cube of
\* radius render_distance around it together with the previously resident
\* coordinates whose grace period had not run out at that update: those last seen
\* inside the want set (which they left after that) at most unload_grace_period
\* before it.
C6_ResidentIsCubePlusGrace ==
    [][(StepOf("process_chunk_queue") /\ last_player_chunk \in DOMAIN chunk_last_accessed) =>
          DOMAIN chunks' =
              WantSet(last_player_chunk, render_distance)
                  \cup {k \in DOMAIN chunks :
                           chunk_last_accessed[last_player_chunk] - chunk_last_accessed[k]
                               <= UNLOAD_GRACE_PERIOD}]_vars

\* with render distance 1, update_chunks then process_chunk_queue have run and have
\* kept, next to the cube with its corners, a chunk that left the want set and was
\* last inside it exactly unload_grace_period ago
C6_Witness ==
    /\ render_distance = 1
    /\ {"update_chunks", "process_chunk_queue"} \subseteq ran
    /\ chunk_load_queue = <<>>
    /\ WantSet(last_player_chunk, render_distance) \subseteq DOMAIN chunks
    /\ \E k \in DOMAIN chunks :
          /\ k \notin WantSet(last_player_chunk, render_distance)
          /\ now - chunk_last_accessed[k] = UNLOAD_GRACE_PERIOD

\* C7: a resident chunk is never queued for loading and its voxel data changes only
\* by the removal of voxels (it is never regenerated); and while the time since it
\* was last inside the want set is at most unload_grace_period it stays resident.
\* So a chunk that leaves the want set and re-enters it in time is kept as it is.
C7_KeptThroughGrace ==
    [][\A k \in DOMAIN chunks :
          /\ k \notin Range(chunk_load_queue')
          /\ (k \in DOMAIN chunks' /\ chunks'[k] # chunks[k]) =>
                /\ StepOf("voxel_removal_system")
                /\ \A i \in 1..Len(chunks[k].voxels) :
                      chunks'[k].voxels[i] => chunks[k].voxels[i]
          /\ (/\ k \in DOMAIN chunk_last_accessed
              /\ now - chunk_last_accessed[k] <= UNLOAD_GRACE_PERIOD) =>
                k \in DOMAIN chunks']_vars

\* the observer is back in the chunk it started in and update_chunks has just found
\* chunk k inside the want set again: k carries a voxel removal, and another resident
\* chunk j was only ever wanted from observer chunks whose want set does not hold k
C7_Witness ==
    /\ "update_chunks" \in ran
    /\ \E k \in DOMAIN chunks, j \in DOMAIN chunks :
          /\ last_player_chunk = <<0, 0, 0>>
          /\ k \in WantSet(last_player_chunk, render_distance)
          /\ chunk_last_accessed[k] = now
          /\ chunks[k] # FreshTerrain(k)
          /\ \A c \in ObserverChunks :
                j \in WantSet(c, render_distance) => k \notin WantSet(c, render_distance)

\* C8: every coordinate on chunk_unload_queue, and every coordinate a step removes
\* from chunks, was last inside the want set more than unload_grace_period ago.
C8_NoEvictionWithinGrace ==
    [][/\ \A k \in Range(chunk_unload_queue') :
             /\ k \in DOMAIN chunk_last_accessed'
             /\ now' - chunk_last_accessed'[k] > UNLOAD_GRACE_PERIOD
       /\ \A k \in DOMAIN chunks \ DOMAIN chunks' :
             /\ k \in DOMAIN chunk_last_accessed
             /\ now - chunk_last_accessed[k] > UNLOAD_GRACE_PERIOD]_vars

\* update_chunks has queued a resident chunk for unloading one second after its
\* grace period ran out
C8_Witness ==
    /\ "update_chunks" \in ran
    /\ \E k \in Range(chunk_unload_queue) :
          /\ k \in DOMAIN chunks
          /\ now - chunk_last_accessed[k] = UNLOAD_GRACE_PERIOD + 1

\* C9: a coordinate is removed from chunks, chunk_entities and chunk_last_accessed
\* together and its renderable is despawned with it; and a coordinate that is not
\* resident and stays outside the want set does not get a renderable.
C9_EvictedStaysAbsent ==
    [][/\ \A k \in DOMAIN chunks \ DOMAIN chunks' :
             /\ k \notin DOMAIN chunk_entities'
             /\ k \notin DOMAIN chunk_last_accessed'
             /\ k \in DOMAIN chunk_entities => entities'[chunk_entities[k]].despawn
       /\ \A k \in DOMAIN chunk_entities' :
             (/\ k \notin DOMAIN chunks
              /\ k \notin WantSet(last_player_chunk', render_distance)
              /\ k \notin DOMAIN chunk_entities) => k \in DOMAIN chunks']_vars

\* C10: handle_meshing_tasks creates a renderable, and its chunk_entities entry,
\* only for a coordinate that is resident.
C10_StaleBuildDiscarded ==
    [][StepOf("handle_meshing_tasks") =>
          /\ DOMAIN chunk_entities' \ DOMAIN chunk_entities \subseteq DOMAIN chunks
          /\ \A e \in DOMAIN entities' \ DOMAIN entities : e[1] \in DOMAIN chunks]_vars


\* C11: at every point of every execution at most one mesh-build task per chunk
\* coordinate is in flight.
C11_OneBuildPerChunk ==
    \A i \in 1..Len(tasks), j \in 1..Len(tasks) :
        tasks[i].key = tasks[j].key => i = j


\* C12: at every tick boundary (no system of the frame has run yet) the key set of
\* chunk_entities equals the key set of chunks: no coordinate has a chunk without a
\* renderable, and none has a renderable without a chunk.
C12_RenderablesMatchChunks ==
    ran = {} => DOMAIN chunk_entities = DOMAIN chunks


\* C13: when no mesh task is in flight (every build spawned so far has completed and
\* been applied), the mesh installed on the renderable of every resident chunk is the
\* one built from the chunk's present voxel contents.
C13_InstalledMeshIsFinal ==
    tasks = <<>> =>
        \A k \in DOMAIN chunks :
            /\ k \in DOMAIN chunk_entities
            /\ entities[chunk_entities[k]].mesh = chunks[k].voxels


\* the Manhattan distance prioritize_chunks computes for chunk k seen from chunk pc
Manhattan(k, pc) == Abs(k[1] - pc[1]) + Abs(k[2] - pc[2]) + Abs(k[3] - pc[3])

\* C14: the mesh tasks process_queue dispatches in one tick, one for each chunk it
\* creates and in the order of creation, are in order of non-decreasing Manhattan
\* distance from the observer's chunk.
C14_LoadsNearestFirst ==
    [][(StepOf("process_chunk_queue") /\ camera.present) =>
          \A i \in (Len(tasks) + 1)..Len(tasks'), j \in (Len(tasks) + 1)..Len(tasks') :
              i < j => Manhattan(tasks'[i].key, PlayerChunk(camera.pos))
                           <= Manhattan(tasks'[j].key, PlayerChunk(camera.pos))]_vars


\* C15: a removal of a voxel on a chunk boundary face causes the resident neighbour
\* on that side to be remeshed as well as the edited chunk. In the column variant:
\* when prepare_chunk_updates runs, it regenerates the mesh data of every resident,
\* spawned chunk whose position a removal that changed a cell has inserted into
\* chunks_to_update (the edited chunk and the neighbours across the faces the
\* removed voxel lies on).
C15_BoundaryEditRemeshesNeighbour ==
    [][StepOf("prepare_chunk_updates") =>
          \A pos \in (edit_marks \ idle_marks) \cap DOMAIN terrain_state.chunks :
              centities[terrain_state.chunks[pos]].live
                  => centities'[terrain_state.chunks[pos]].insert_prepared.some]_vars


\* the position of sample n of the last raycast
RaySample(n) ==
    <<call.origin[1] + n * call.direction[1], call.origin[2] + n * call.direction[2],
      call.origin[3] + n * call.direction[3]>>

\* the voxel (in world voxel coordinates) that holds a position given in units of
\* 1 / unit
VoxelOf(pos, unit) == <<pos[1] \div unit, pos[2] \div unit, pos[3] \div unit>>

\* volumetric world: the chunk that holds world voxel v, and v's place in it
WChunkOfVoxel(v) ==
    <<v[1] \div WorldChunkSize, v[2] \div WorldChunkSize, v[3] \div WorldChunkSize>>

WLocalOfVoxel(v) ==
    <<v[1] - WChunkOfVoxel(v)[1] * WorldChunkSize,
      v[2] - WChunkOfVoxel(v)[2] * WorldChunkSize,
      v[3] - WChunkOfVoxel(v)[3] * WorldChunkSize>>

\* column world: chunks are columns in the plane y = 0
CChunkOfVoxel(v) == <<v[1] \div ColChunkSize, 0, v[3] \div ColChunkSize>>

CLocalOfVoxel(v) ==
    <<v[1] - CChunkOfVoxel(v)[1] * ColChunkSize, v[2],
      v[3] - CChunkOfVoxel(v)[3] * ColChunkSize>>

\* sample n of the last World::raycast lies in a resident chunk, in a solid voxel
WSolidSample(n) ==
    LET v == VoxelOf(RaySample(n), StepsPerUnit) IN
    /\ WChunkOfVoxel(v) \in DOMAIN chunks
    /\ CellAt(chunks[WChunkOfVoxel(v)], WLocalOfVoxel(v))

\* sample n of the last interaction.rs raycast lies in a resident chunk, in a solid
\* voxel
CSolidSample(n) ==
    LET v == VoxelOf(RaySample(n), ColUnit) IN
    /\ CChunkOfVoxel(v) \in DOMAIN terrain_state.chunks
    /\ v[2] >= 0 /\ v[2] < TerrainHeight
    /\ CellAt(centities[terrain_state.chunks[CChunkOfVoxel(v)]].chunk, CLocalOfVoxel(v))

\* the samples of the last raycast: World::raycast starts at the origin,
\* interaction.rs raycast one step after it
WSamples == 0..(call.max_distance * StepsPerUnit - 1)

CSamples == 1..((call.max_distance * ColUnit) \div ColStep)

C17_HitNormalIsEnteredFace ==
    (call.name = "interaction.rs raycast" /\ ret.hit) =>
        LET solid == {n \in CSamples : CSolidSample(n)}
            n == CHOOSE m \in solid : \A o \in solid : m <= o
            inside == VoxelOf(RaySample(n), ColUnit)
            before == VoxelOf(RaySample(n - 1), ColUnit)
            across == <<before[1] - inside[1], before[2] - inside[2], before[3] - inside[3]>>
        IN /\ Abs(across[1]) + Abs(across[2]) + Abs(across[3]) = 1 =>
                 ret.normal = <<across[1] * ColUnit, across[2] * ColUnit, across[3] * ColUnit>>
           /\ (/\ call.origin = <<-5000, 500, 500>>
               /\ call.direction = <<10, 0, 0>>
               /\ DOMAIN terrain_state.chunks = {<<0, 0, 0>>}
               /\ \A i \in 1..(ColChunkSize * TerrainHeight * ColChunkSize) :
                     centities[terrain_state.chunks[<<0, 0, 0>>]].chunk.voxels[i] <=> i = 1) =>
                 /\ ret.chunk_pos = <<0, 0, 0>>
                 /\ ret.local_pos = <<0, 0, 0>>
                 /\ ret.normal = <<-ColUnit, 0, 0>>


\* C18: when no observer entity exists, a streaming tick and an interaction tick are
\* no-ops and nothing fails: update_chunks, prioritize_chunks and voxel_removal_system
\* of main.rs leave the World, the tasks and the renderables as they are, and
\* mark_chunks_for_update and handle_mouse_input of the column variant leave the
\* terrain state and the chunk entities as they are and do not panic.
C18_NoObserverIsNoOp ==
    [][~camera.present =>
          /\ (StepOf("update_chunks") \/ StepOf("prioritize_chunks")
                 \/ StepOf("voxel_removal_system")) =>
                UNCHANGED <<worldVars, tasks, entities>>
          /\ (StepOf("mark_chunks_for_update") \/ StepOf("handle_mouse_input")) =>
                /\ UNCHANGED <<terrain_state, centities>>
                /\ panicked' = FALSE]_vars


\* C19: in every generated chunk the cell at world coordinates (X, Y, Z) is solid
\* exactly when Y is below the height computed from the noise at world (X, Z),
\* whichever chunk holds it, in Chunk::generate_terrain and in chunk.rs Chunk::new.
C19_TerrainIsChunkIndependent ==
    /\ call.name = "generate_terrain" =>
          \A p \in Cells(chunk) :
              CellAt(chunk, p) <=>
                  call.y * chunk.height + p[2]
                      < NoiseHeight(call.x * chunk.width + p[1], call.z * chunk.depth + p[3])
    /\ call.name = "chunk.rs new" =>
          \A p \in Cells(cchunk) :
              CellAt(cchunk, p) <=>
                  p[2] < ColNoiseHeight(call.x * ColChunkSize + p[1],
                                        call.z * ColChunkSize + p[3])


\* C20: merge_voxels is repeatable: called again on the same chunk it returns the
\* same boxes in the same order, whatever an earlier call or edit left in the
\* boxified array its result is the one of a chunk with a clear boxified array, and
\* it never changes the voxels array.
C20_MergeIsRepeatable ==
    [][call'.name \in {"merge_voxels", "merge_voxels again"} =>
          /\ call'.name = "merge_voxels again" => boxes' = boxes
          /\ boxes' = merge_voxels(ChunkOf(<<chunk.width, chunk.height, chunk.depth>>,
                                           chunk.voxels)).boxes
          /\ chunk'.voxels = chunk.voxels]_vars

\* a second call in a row on a grid of several boxes, every solid cell of which the
\* call before has left boxified
C20_Witness ==
    /\ call.name = "merge_voxels again"
    /\ Len(boxes) >= 2
    /\ \E n \in 1..Len(chunk.boxified) : chunk.boxified[n]


\* C21: the want set and the queues are recomputed only on ticks where the observer's
\* chunk differs from the last-known one: when update_chunks or
\* mark_chunks_for_update runs with the observer in the chunk an earlier run has
\* recorded, the queues and the last-accessed timestamps stay as they are.
C21_RecomputedOnlyOnChunkChange ==
    [][/\ (/\ StepOf("update_chunks")
           /\ camera.present
           /\ chunk_last_accessed # NoMap
           /\ PlayerChunk(camera.pos) = last_player_chunk)
          => UNCHANGED <<chunk_load_queue, chunk_unload_queue, chunk_last_accessed>>
       /\ (/\ StepOf("mark_chunks_for_update")
           /\ camera.present
           /\ ColChunkPos(camera.pos) = terrain_state.player_chunk)
          => UNCHANGED terrain_state]_vars


\* C22: within every tick update_chunks runs before process_chunk_queue, which runs
\* before handle_meshing_tasks; and handle_meshing_tasks applies no build that was
\* dispatched in its own tick.
C22_DecideDispatchApplyInOrder ==
    [][/\ StepOf("process_chunk_queue") => "update_chunks" \in ran
       /\ StepOf("handle_meshing_tasks") =>
             /\ "process_chunk_queue" \in ran
             /\ \A i \in 1..Len(tasks) :
                   ~tasks[i].live => \E j \in 1..Len(tasks') : tasks'[j] = tasks[i]]_vars


\* the number of builds of s that are for chunk_key
TasksFor(s, chunk_key) == Cardinality({i \in 1..Len(s) : s[i].key = chunk_key})

\* C23: a coordinate that has entered the want set while absent from World.chunks,
\* and so stands in chunk_load_queue, leaves the queue only by process_queue creating
\* its chunk and dispatching exactly one build for it; process_queue dispatches no
\* other build.
C23_WantedIsLoadedOnce ==
    [][/\ \A k \in Range(chunk_load_queue) \ DOMAIN chunks :
             \/ k \in Range(chunk_load_queue')
             \/ /\ StepOf("process_chunk_queue")
                /\ k \in DOMAIN chunks'
                /\ chunks'[k] = FreshTerrain(k)
                /\ TasksFor(tasks', k) = TasksFor(tasks, k) + 1
       /\ StepOf("process_chunk_queue") =>
             \A k \in {tasks'[i].key : i \in 1..Len(tasks')} :
                 k \notin Range(chunk_load_queue) \ DOMAIN chunks
                     => TasksFor(tasks', k) = TasksFor(tasks, k)]_vars


\* C24: a voxel write that changes no cell triggers no remeshing: a press of
\* voxel_removal_system that leaves every chunk as it was dispatches no build; a press
\* of handle_mouse_input that changes no cell changes no dirty flag, and
\* prepare_chunk_updates regenerates no mesh data for a chunk that only such presses
\* have marked.
C24_NoOpWriteTriggersNoRemesh ==
    [][/\ (StepOf("voxel_removal_system") /\ chunks' = chunks) => tasks' = tasks
       /\ (/\ StepOf("handle_mouse_input")
           /\ \A e \in DOMAIN centities :
                 centities'[e].chunk.voxels = centities[e].chunk.voxels)
          => \A e \in DOMAIN centities :
                centities'[e].chunk.dirty = centities[e].chunk.dirty
       /\ StepOf("prepare_chunk_updates") =>
             \A pos \in idle_marks \cap DOMAIN terrain_state.chunks :
                 ~centities'[terrain_state.chunks[pos]].insert_prepared.some]_vars


\* the instance data shows only cells that are solid in the chunk of the entity
ShowsSolidCells(ent) ==
    \A n \in 1..Len(ent.data) :
        LET x == ent.data[n].position[1] - ent.position[1] * ColChunkSize
            y == ent.data[n].position[2] - ent.position[2] * ColChunkSize
            z == ent.data[n].position[3] - ent.position[3] * ColChunkSize
        IN CInBounds(ent.chunk, x, y, z)
           /\ ent.chunk.voxels[x + y * ent.chunk.width
                               + z * ent.chunk.width * ent.chunk.height + 1]

\* C25: a chunk is dirty when it is created and after every edit that changes a
\* cell, and a chunk that is not dirty has instance data built from its current
\* voxels: the data shows no cell that an edit has emptied.
C25_CleanMeansMeshedFromCurrent ==
    [][\A e \in DOMAIN centities' :
          /\ e \notin DOMAIN centities => centities'[e].chunk.dirty
          /\ (e \in DOMAIN centities
              /\ centities'[e].chunk.voxels # centities[e].chunk.voxels)
                 => centities'[e].chunk.dirty
          /\ ~centities'[e].chunk.dirty => ShowsSolidCells(centities'[e])]_vars


Minus(u, v) == <<u[1] - v[1], u[2] - v[2], u[3] - v[3]>>

Cross(u, v) ==
    <<u[2] * v[3] - u[3] * v[2], u[3] * v[1] - u[1] * v[3], u[1] * v[2] - u[2] * v[1]>>

Dot(u, v) == u[1] * v[1] + u[2] * v[2] + u[3] * v[3]

UnitNormals ==
    {<<1, 0, 0>>, <<-1, 0, 0>>, <<0, 1, 0>>, <<0, -1, 0>>, <<0, 0, 1>>, <<0, 0, -1>>}

\* the vertex p lies on the side of box bx that the unit normal n points out of
OnOutwardFace(p, bx, n) ==
    \A axis \in 1..3 :
        /\ n[axis] = 1 => p[axis] = bx[axis] + bx[axis + 3]
        /\ n[axis] = -1 => p[axis] = bx[axis]

\* C26: generate_mesh emits 24 vertices and 36 indices for each box; every index of a
\* box refers to one of the 24 vertices of that box; and for every triangle the cross
\* product of its edges, taken in winding order, points the way of the declared normal
\* of its three vertices, which is the outward normal of the face of the box they
\* lie on.
C26_WindingMatchesOutwardNormals ==
    call.name = "generate_mesh" =>
        LET bs == merge_voxels(chunk).boxes IN
        /\ Len(mesh.positions) = 24 * Len(bs)
        /\ Len(mesh.normals) = 24 * Len(bs)
        /\ Len(mesh.indices) = 36 * Len(bs)
        /\ \A b \in 1..Len(bs) :
              /\ \A k \in 1..36 :
                    /\ mesh.indices[36 * (b - 1) + k] >= 24 * (b - 1)
                    /\ mesh.indices[36 * (b - 1) + k] < 24 * b
              /\ \A t \in 0..11 :
                    LET i0 == mesh.indices[36 * (b - 1) + 3 * t + 1] + 1
                        i1 == mesh.indices[36 * (b - 1) + 3 * t + 2] + 1
                        i2 == mesh.indices[36 * (b - 1) + 3 * t + 3] + 1
                        n == mesh.normals[i0]
                        winding == Cross(Minus(mesh.positions[i1], mesh.positions[i0]),
                                         Minus(mesh.positions[i2], mesh.positions[i0]))
                    IN /\ n \in UnitNormals
                       /\ mesh.normals[i1] = n /\ mesh.normals[i2] = n
                       /\ Dot(winding, n) > 0
                       /\ Cross(winding, n) = <<0, 0, 0>>
                       /\ OnOutwardFace(mesh.positions[i0], bs[b], n)
                       /\ OnOutwardFace(mesh.positions[i1], bs[b], n)
                       /\ OnOutwardFace(mesh.positions[i2], bs[b], n)

\* a mesh of several boxes, one of them larger than a cell
C26_Witness ==
    /\ call.name = "generate_mesh"
    /\ Len(mesh.indices) >= 72
    /\ \E b \in 1..Len(merge_voxels(chunk).boxes) :
          merge_voxels(chunk).boxes[b][4] * merge_voxels(chunk).boxes[b][5]
              * merge_voxels(chunk).boxes[b][6] >= 2


\* cell p is inside the grid, solid, and in none of the boxes emitted before box n
FreeBefore(c, bs, n, p) ==
    /\ p \in Cells(c)
    /\ CellAt(c, p)
    /\ \A m \in 1..(n - 1) : ~InBox(p, bs[m])

\* C27: every box merge_voxels emits is maximal in the positive directions when it is
\* emitted: the column next to it in +x, the row next to it in +y and the layer next
\* to it in +z each hold a cell that is out of bounds, empty or claimed by an earlier
\* box.
C27_BoxesAreMaximal ==
    call.name = "merge_voxels" =>
        \A n \in 1..Len(boxes) :
            LET x == boxes[n][1]  y == boxes[n][2]  z == boxes[n][3]
                nx == boxes[n][4]  ny == boxes[n][5]  nz == boxes[n][6]
            IN /\ \E j \in y..(y + ny - 1), k \in z..(z + nz - 1) :
                     ~FreeBefore(chunk, boxes, n, <<x + nx, j, k>>)
               /\ \E i \in x..(x + nx - 1), k \in z..(z + nz - 1) :
                     ~FreeBefore(chunk, boxes, n, <<i, y + ny, k>>)
               /\ \E i \in x..(x + nx - 1), j \in y..(y + ny - 1) :
                     ~FreeBefore(chunk, boxes, n, <<i, j, z + nz>>)

\* a box that stopped growing at a solid cell an earlier box had claimed, and a box
\* that stopped at an empty cell inside the grid
C27_Witness ==
    /\ call.name = "merge_voxels"
    /\ \E n \in 2..Len(boxes) :
          \E m \in 1..(n - 1) :
              InBox(<<boxes[n][1], boxes[n][2] + boxes[n][5], boxes[n][3]>>, boxes[m])
    /\ \E n \in 1..Len(boxes) :
          /\ boxes[n][1] + boxes[n][4] < chunk.width
          /\ ~CellAt(chunk, <<boxes[n][1] + boxes[n][4], boxes[n][2], boxes[n][3]>>)


\* C28: at every sample position, on either side of the origin, the chunk key and
\* the local position World::raycast computes give the voxel that holds the sample:
\* chunk * chunk_size + local = floor(position) on each axis, with
\* 0 <= local < chunk_size.
C28_SampleNamesItsVoxel ==
    call.name = "World::raycast sample" =>
        \A a \in 1..3 :
            /\ ret.voxel_pos[a] \in 0..(CHUNK_SIZE - 1)
            /\ ret.chunk_key[a] * CHUNK_SIZE + ret.voxel_pos[a] = call.current_pos[a] \div F32Unit


\* the cell of the column world at the grid coordinates g is solid: the chunk that
\* holds g is resident and its cell there is set
GridSolid(g) ==
    LET pos == <<g[1] \div ColChunkSize, g[2] \div TerrainHeight, g[3] \div ColChunkSize>>
        x == g[1] % ColChunkSize
        y == g[2] % TerrainHeight
        z == g[3] % ColChunkSize
        c == IF pos = <<0, 0, 0>> THEN cchunk ELSE centities[terrain_state.chunks[pos]].chunk
    IN /\ pos = <<0, 0, 0>> \/ pos \in DOMAIN terrain_state.chunks
       /\ c.voxels[x + y * c.width + z * c.width * c.height + 1]

\* the cells of the chunk at (0, 0, 0) that are solid and have a face neighbour that
\* is not
ExposedCells ==
    {p \in (0..(cchunk.width - 1)) \X (0..(cchunk.height - 1)) \X (0..(cchunk.depth - 1)) :
        /\ GridSolid(p)
        /\ \E i \in 1..6 : ~GridSolid(Plus(p, neighbor_positions[i]))}

\* C29: chunk.rs generate_instance_data emits one instance for each solid voxel with
\* a face neighbour that is not solid, and none for any other voxel; a neighbour
\* across a chunk boundary is read from the face-adjacent chunk when that chunk is
\* resident and is not solid when it is absent.
C29_InstancesAreTheExposedVoxels ==
    call.name = "generate_instance_data" =>
        /\ {ret[n].position : n \in 1..Len(ret)} = ExposedCells
        /\ Len(ret) = Cardinality(ExposedCells)

\* a voxel enclosed with the help of a resident neighbour is left out, and a voxel
\* whose only open face looks at an absent chunk is emitted
C29_Witness ==
    /\ call.name = "generate_instance_data"
    /\ \E p \in (0..(cchunk.width - 1)) \X (0..(cchunk.height - 1)) \X (0..(cchunk.depth - 1)) :
          /\ GridSolid(p)
          /\ p \notin {ret[n].position : n \in 1..Len(ret)}
          /\ \E i \in 1..6 : ~CInBounds(cchunk, Plus(p, neighbor_positions[i])[1],
                                        Plus(p, neighbor_positions[i])[2],
                                        Plus(p, neighbor_positions[i])[3])
    /\ \E n \in 1..Len(ret) :
          \A i \in 1..6 :
              LET q == Plus(ret[n].position, neighbor_positions[i]) IN
              \/ GridSolid(q)
              \/ /\ ~CInBounds(cchunk, q[1], q[2], q[3])
                 /\ neighbor_positions[i] \notin DOMAIN terrain_state.chunks


\* the largest distance of k from pc along an axis
Chebyshev(k, pc) ==
    LET dx == Abs(k[1] - pc[1])  dy == Abs(k[2] - pc[2])  dz == Abs(k[3] - pc[3])
    IN IF dx >= dy /\ dx >= dz THEN dx ELSE IF dy >= dz THEN dy ELSE dz

\* C30: update_chunks never queues for unloading a key of the cube of side
\* 2 * render_distance + 1 around the observer's chunk, the corners of the cube
\* included, and it leaves no key in both chunk_load_queue and chunk_unload_queue.
C30_WantedIsNeverUnloaded ==
    [][(StepOf("update_chunks") /\ camera.present) =>
          /\ \A k \in Range(chunk_unload_queue') :
                Chebyshev(k, last_player_chunk') > render_distance
          /\ Range(chunk_load_queue') \cap Range(chunk_unload_queue') = {}]_vars

\* update_chunks has run, later than the grace period after the start, with a resident
\* chunk at a corner of the cube that it did not queue for unloading, while it did
\* queue another chunk
C30_Witness ==
    /\ "update_chunks" \in ran
    /\ camera.present
    /\ now > UNLOAD_GRACE_PERIOD
    /\ chunk_unload_queue # <<>>
    /\ \E k \in DOMAIN chunks :
          /\ Chebyshev(k, last_player_chunk) <= render_distance
          /\ Dist2(k, last_player_chunk) > render_distance * render_distance
          /\ k \notin Range(chunk_unload_queue)


\* C31: in the volumetric world every resident chunk has a last-accessed time, after
\* any sequence of update_chunks and process_queue calls.
C31_ResidentHasTimestamp == DOMAIN chunks \subseteq DOMAIN chunk_last_accessed

\* process_queue has run after the observer left a chunk it had loaded: the chunk is
\* resident outside the cube around the observer, update_chunks stamps it no more, and
\* it carries the time of its last stamp
C31_Witness ==
    /\ "process_chunk_queue" \in ran
    /\ chunk_load_queue = <<>>
    /\ \E k \in DOMAIN chunks :
          /\ Chebyshev(k, last_player_chunk) > render_distance
          /\ k \in DOMAIN chunk_last_accessed
          /\ chunk_last_accessed[k] < now


\* C32: in the column variant a voxel removal adds no chunk to the store: every
\* coordinate update_marked_chunks adds to terrain_state.chunks, after a
\* handle_mouse_input or not, has y = 0 and lies within RENDER_DISTANCE, along x and
\* along z, of the observer's chunk.
C32_RemovalAddsNoChunk ==
    [][StepOf("update_marked_chunks") =>
          \A pos \in DOMAIN terrain_state'.chunks \ DOMAIN terrain_state.chunks :
              /\ pos[2] = 0
              /\ Chebyshev(pos, terrain_state.player_chunk) <= ColRenderDistance]_vars


\* the step is a removal by voxel_removal_system whose ray hit: the chunk of the hit is
\* resident, the voxel of the hit is a solid cell of it, and the step empties that
\* cell and changes no other
WorldHitIsRemoved ==
    (StepOf("voxel_removal_system") /\ clicks' # clicks /\ camera.present) =>
        \A ray_direction \in Directions :
            LET found == World_raycast(camera.pos, ray_direction, VOXEL_REMOVAL_RANGE)
                r == remove_voxel(found.chunk_key, found.voxel_pos)
            IN (found.hit /\ chunks' = r.chunks /\ tasks' = tasks \o r.spawned) =>
                  /\ found.chunk_key \in DOMAIN chunks
                  /\ found.voxel_pos \in Cells(chunks[found.chunk_key])
                  /\ CellAt(chunks[found.chunk_key], found.voxel_pos)
                  /\ DOMAIN chunks' = DOMAIN chunks
                  /\ \A k \in DOMAIN chunks : \A p \in Cells(chunks[k]) :
                        CellAt(chunks'[k], p) =
                            (CellAt(chunks[k], p) /\ <<k, p>> # <<found.chunk_key, found.voxel_pos>>)

\* the cell p of the chunk.rs chunk c
CCellAt(c, p) == c.voxels[p[1] + p[2] * c.width + p[3] * c.width * c.height + 1]

\* the same for a removal by handle_mouse_input
ColumnHitIsRemoved ==
    (StepOf("handle_mouse_input") /\ clicks' # clicks /\ camera.present) =>
        \A direction \in ColDirections :
            LET found == interaction_raycast(terrain_state, centities, camera.pos,
                                             direction, MouseMaxDistance)
                r == col_remove_voxel(terrain_state, centities, found.chunk_pos, found.local_pos)
            IN (found.hit /\ terrain_state' = r.ts /\ centities' = r.ents) =>
                  /\ found.chunk_pos \in DOMAIN terrain_state.chunks
                  /\ LET c == centities[terrain_state.chunks[found.chunk_pos]].chunk IN
                     /\ CInBounds(c, found.local_pos[1], found.local_pos[2], found.local_pos[3])
                     /\ CCellAt(c, found.local_pos)
                  /\ \A e \in DOMAIN centities :
                        \A p \in (0..(centities[e].chunk.width - 1))
                                    \X (0..(centities[e].chunk.height - 1))
                                    \X (0..(centities[e].chunk.depth - 1)) :
                            CCellAt(centities'[e].chunk, p) =
                                (/\ CCellAt(centities[e].chunk, p)
                                 /\ ~(/\ e = terrain_state.chunks[found.chunk_pos]
                                      /\ p = found.local_pos))

\* C33: whenever a raycast returns a hit, the chunk of the hit is resident, the local
\* coordinate lies inside it and the voxel is solid there, so the removal the hit drives
\* changes that one cell from solid to empty and no other; for World::raycast with
\* World::remove_voxel and for the raycast of interaction.rs with its remove_voxel.
C33_HitRemovesItsVoxel == [][WorldHitIsRemoved /\ ColumnHitIsRemoved]_vars

====
